---- MODULE Spec2Model ----
(***************************************************************************)
(* Verification model of the Spotify "Music League Helper" client:         *)
(*   - the collection synchronizer (shared/spotify-api.ts): cached,        *)
(*     paginated reads of the library, the playlist list and a playlist's  *)
(*     tracks, and the resync diff;                                        *)
(*   - the token authority (getAccessToken / refreshAccessToken);          *)
(*   - the remote fetch gateway (retryWithBackoff);                        *)
(*   - the playback device reconciler (shared/player.ts, playTrack).       *)
(* Each component has its own specification over its own variables; the    *)
(* variables of the other components are held constant in it.              *)
(***************************************************************************)
EXTENDS Integers, Sequences, FiniteSets, TLC

(***************************************************************************)
(* Bounds of the model.                                                    *)
(***************************************************************************)
\* Records per page of the library and playlist listings.  The source pages
\* by 50 (and by twice that, 100, for a playlist's tracks); the model keeps
\* the 1:2 ratio at a size TLC can enumerate.
PageScale == 2
\* Longest remote collection.
MaxTotal == 5
\* Most changes the remote service makes to the collection in one behaviour.
MaxChanges == 1
\* Most page requests one fetch is followed through (a fetch that has not
\* left its loop by then is not followed further).
MaxRequests == 4

(***************************************************************************)
(* Program constants.                                                      *)
(***************************************************************************)
CACHE_VERSION == 3
DAY_MS == 86400000

Collections == {"LIBRARY", "PLAYLISTS", "PLAYLIST_TRACKS"}

Max(a, b) == IF a >= b THEN a ELSE b
Min(a, b) == IF a <= b THEN a ELSE b
\* ceil(n / p) for n >= 0, p > 0
CeilDiv(n, p) == (n + p - 1) \div p

(***************************************************************************)
(* Records.  A track carries its id and the number of album images; a null *)
(* track is the `track: null` item a playlist returns for a podcast        *)
(* episode or a deleted track.                                             *)
(***************************************************************************)
NullTrack == [id |-> 0, images |-> 0]
Track(i) == [id |-> i, images |-> i % 3]

\* toMinimalTrack: keeps the id and only the first image's url
toMinimalTrack(track) ==
    [id |-> track.id, hasImage |-> track.images > 0]

\* fromMinimalTrack: at most one image comes back
fromMinimalTrack(cached) ==
    [id |-> cached.id, images |-> IF cached.hasImage THEN 1 ELSE 0]

\* `tracks.map(toMinimalTrack)` and `cachedData.tracks.map(fromMinimalTrack)`
MinimalTracks(ts) == [i \in 1..Len(ts) |-> toMinimalTrack(ts[i])]
FullTracks(cs) == [i \in 1..Len(cs) |-> fromMinimalTrack(cs[i])]

IdSet(s) == {s[i].id : i \in 1..Len(s)}

\* the code's `limit` of each listing
limit(c) == IF c = "PLAYLIST_TRACKS" THEN 2 * PageScale ELSE PageScale

\* only fetchPlaylistTracks filters `item.track !== null`
FiltersNull(c) == c = "PLAYLIST_TRACKS"

\* the library and playlist-track caches hold minimal tracks; the playlist
\* list is stored as fetched
Minimizes(c) == c # "PLAYLISTS"

AutoExpires_all(c) == TRUE
\* only fetchUserPlaylists checks the record's age
AutoExpires(c) == c = "PLAYLISTS"

ReportsProgress_never(c) == FALSE
\* fetchUserPlaylists takes no progress callback
ReportsProgress(c) == c # "PLAYLISTS"

(***************************************************************************)
(* State of the collection synchronizer.                                   *)
(***************************************************************************)
VARIABLES
    coll,              \* the collection (store partition) this behaviour is about
    remote,            \* the remote collection: a sequence of items
    epoch,             \* number of changes the remote service has made
    store,             \* the cache record of coll in IndexedDB
    now,               \* Date.now()
    migrationChecked,  \* module flag of ensureMigration
    pc,                \* position of the running operation
    op,                \* the running operation
    existingTrackIds,  \* resync: ids read from the cache before the fetch
    tracks,            \* records accumulated by the page loop
    offset,            \* offset of the next page request
    requests,          \* page requests issued by the running operation
    progress,          \* invocations of onProgress by the running operation
    result,            \* what the operation returned
    warned,            \* the final put failed and a warning was reported
    cacheAtCall,       \* the cache record when the operation was called
    epochAtCall,       \* epoch when the operation was called
    prev               \* the previous operation, once it has returned

syncVars == <<coll, remote, epoch, store, now, migrationChecked, pc, op,
              existingTrackIds, tracks, offset, requests, progress, result,
              warned, cacheAtCall, epochAtCall, prev>>

NoRecord == [present |-> FALSE]
CacheRecord(version, wellFormed, payload, lastSynced) ==
    [present |-> TRUE, version |-> version, wellFormed |-> wellFormed,
     payload |-> payload, lastSynced |-> lastSynced]

NoOp == [kind |-> "none", forceRefresh |-> FALSE]
NoResult == [returned |-> FALSE]
NoPrev == [kind |-> "none", putOk |-> FALSE, epochAtCall |-> 0]

(***************************************************************************)
(* The remote service and the initial store.                               *)
(***************************************************************************)
\* null patterns of a remote playlist of n items: none, one item, or all
NullSets(n) == {{}} \cup {{i} : i \in 1..n} \cup {1..n}

RemoteOf(n, nulls) == [i \in 1..n |-> IF i \in nulls THEN NullTrack ELSE Track(i)]

InitRemotes(c) ==
    UNION {{RemoteOf(n, nulls) : nulls \in IF FiltersNull(c) THEN NullSets(n) ELSE {{}}} :
              n \in 0..MaxTotal}

\* ids of tracks a cache left by an earlier session may hold
CachedIdLists == {<<>>, <<1, 2>>, <<2, MaxTotal + 4>>}

Payload(c, ids) ==
    IF Minimizes(c) THEN MinimalTracks([i \in 1..Len(ids) |-> Track(ids[i])])
    ELSE [i \in 1..Len(ids) |-> Track(ids[i])]

\* a record of the current or of the previous schema version, holding a
\* well-formed payload or one the code cannot iterate
InitStores(c) ==
    {NoRecord}
    \cup {CacheRecord(v, TRUE, Payload(c, ids), 0) :
            v \in {CACHE_VERSION - 1, CACHE_VERSION}, ids \in CachedIdLists}
    \cup {CacheRecord(v, FALSE, <<>>, 0) : v \in {CACHE_VERSION - 1, CACHE_VERSION}}

(***************************************************************************)
(* Pure parts of the read and resync operations.                           *)
(***************************************************************************)
VersionMatches_skip(cachedData) == TRUE
\* `cachedData.version !== CACHE_VERSION` negated
VersionMatches(cachedData) == cachedData.version = CACHE_VERSION

IsFresh_inclusive(cachedData, t) == t - cachedData.lastSynced <= DAY_MS
\* `Date.now() - lastSynced < 24 * 60 * 60 * 1000`
IsFresh(cachedData, t) == t - cachedData.lastSynced < DAY_MS

\* What a read does with the record it finds:
\*   "fetch"  no usable record: page through the remote collection
\*   "stale"  version mismatch: delete the record, then fetch
\*   "hit"    return the cached payload
CacheDecision(c, cachedData, forceRefresh, t) ==
    IF forceRefresh \/ ~cachedData.present THEN "fetch"
    ELSE IF ~VersionMatches(cachedData) THEN "stale"
    ELSE IF AutoExpires(c) THEN (IF IsFresh(cachedData, t) THEN "hit" ELSE "fetch")
    ELSE IF cachedData.wellFormed THEN "hit"
    ELSE "fetch"     \* cachedData.tracks.map throws; caught, "will refetch"

\* records a cache hit returns
FromCache(c, cachedData) ==
    IF Minimizes(c) THEN FullTracks(cachedData.payload)
    ELSE cachedData.payload

\* one page of the listing: items offset+1 .. offset+limit
Page(items, off, lim) == SubSeq(items, off + 1, Min(off + lim, Len(items)))

\* `.filter((item) => item.track !== null)`
ValidTracks(c, items) ==
    IF FiltersNull(c) THEN SelectSeq(items, LAMBDA item : item # NullTrack)
    ELSE items

NextOffset_same(off, lim) == off
\* `offset += limit`
NextOffset(off, lim) == off + lim

\* `if (tracks.length >= response.total) break`
LoopDone(length, total) == length >= total

\* new Set<string>() filled by forEach: the ids in insertion order, once each
RECURSIVE AddAll(_, _)
AddAll(seen, ids) ==
    IF ids = <<>> THEN seen
    ELSE AddAll(IF \E i \in 1..Len(seen) : seen[i] = Head(ids)
                THEN seen ELSE Append(seen, Head(ids)), Tail(ids))

\* resync: ids of the cached record, whatever its version or age
ExistingIds(cachedData) ==
    IF cachedData.present /\ cachedData.wellFormed
    THEN AddAll(<<>>, [i \in 1..Len(cachedData.payload) |-> cachedData.payload[i].id])
    ELSE <<>>

Has(ids, id) == \E i \in 1..Len(ids) : ids[i] = id

Added_all(freshTracks, existing) == freshTracks
\* `freshTracks.filter(t => !existingTrackIds.has(t.id))`
Added(freshTracks, existing) ==
    SelectSeq(freshTracks, LAMBDA t : ~Has(existing, t.id))

Removed_swapped(existing, freshTracks) ==
    SelectSeq(existing, LAMBDA id : id \in IdSet(freshTracks))
\* `Array.from(existingTrackIds).filter(id => !freshTrackIds.has(id))`
Removed(existing, freshTracks) ==
    SelectSeq(existing, LAMBDA id : id \notin IdSet(freshTracks))

(***************************************************************************)
(* Operations of the collection synchronizer.  The read functions          *)
(* fetchLibraryTracks, fetchUserPlaylists and fetchPlaylistTracks share    *)
(* one shape; coll selects which of them runs.                             *)
(***************************************************************************)
Returned(fromCache, valid, records, added, removed) ==
    [returned |-> TRUE, fromCache |-> fromCache, valid |-> valid,
     tracks |-> records, added |-> added, removed |-> removed]

\* A call of a read (kind "fetch") or of resyncLibrary / resyncPlaylistTracks
\* (kind "resync"), up to its first page request: ensureMigration, the
\* resync's reading of the old ids, and the cache check of lines 186-207,
\* 296-320, 384-404.
Call(kind, forceRefresh) ==
    /\ pc = "idle"
    /\ kind = "resync" => (forceRefresh /\ coll # "PLAYLISTS")
    /\ migrationChecked' = TRUE
    /\ op' = [kind |-> kind, forceRefresh |-> forceRefresh]
    /\ existingTrackIds' = IF kind = "resync" THEN ExistingIds(store) ELSE <<>>
    /\ cacheAtCall' = store
    /\ epochAtCall' = epoch
    /\ tracks' = <<>>
    /\ offset' = 0
    /\ requests' = 0
    /\ warned' = FALSE
    /\ LET decision == CacheDecision(coll, store, forceRefresh, now)
           cached == FromCache(coll, store)
       IN  CASE decision = "hit" ->
                   /\ progress' = IF ReportsProgress(coll)
                                  THEN <<[current |-> Len(cached), total |-> Len(cached),
                                          newTracks |-> cached]>>
                                  ELSE <<>>
                   /\ result' = Returned(TRUE, store.wellFormed, cached, <<>>, <<>>)
                   /\ pc' = "done"
                   /\ store' = store
             [] decision = "stale" ->
                   /\ store' = NoRecord          \* idbDelete
                   /\ progress' = <<>>
                   /\ result' = NoResult
                   /\ pc' = "page"
             [] OTHER ->
                   /\ store' = store
                   /\ progress' = <<>>
                   /\ result' = NoResult
                   /\ pc' = "page"
    /\ UNCHANGED <<coll, remote, epoch, now, prev>>

CallFetch == \E forceRefresh \in BOOLEAN : Call("fetch", forceRefresh)
CallResync == Call("resync", TRUE)

\* One turn of the `while (true)` loop: request the page at offset, filter,
\* accumulate, report progress, then leave the loop or advance the offset.
FetchPage ==
    /\ pc = "page"
    /\ requests < MaxRequests
    /\ LET total == Len(remote)
           items == Page(remote, offset, limit(coll))
           newTracks == ValidTracks(coll, items)
           acc == tracks \o newTracks
       IN  /\ tracks' = acc
           /\ requests' = requests + 1
           /\ progress' = IF ReportsProgress(coll)
                          THEN Append(progress, [current |-> Len(acc), total |-> total,
                                                 newTracks |-> newTracks])
                          ELSE progress
           /\ IF LoopDone(Len(acc), total)
              THEN pc' = "persist" /\ offset' = offset
              ELSE pc' = "page" /\ offset' = NextOffset(offset, limit(coll))
    /\ UNCHANGED <<coll, remote, epoch, store, now, migrationChecked, op,
                   existingTrackIds, result, warned, cacheAtCall, epochAtCall, prev>>

FetchFail_persistsPartial ==
    /\ pc = "page"
    /\ requests < MaxRequests
    /\ requests' = requests + 1
    /\ pc' = "failed"
    /\ store' = CacheRecord(CACHE_VERSION, TRUE,
                            IF Minimizes(coll) THEN MinimalTracks(tracks) ELSE tracks,
                            now)
    /\ UNCHANGED <<coll, remote, epoch, now, migrationChecked, op,
                   existingTrackIds, tracks, offset, progress, result, warned,
                   cacheAtCall, epochAtCall, prev>>

\* the page request fails (fetchFromSpotify throws: a remote error after
\* the retries, or no credential): the operation ends with that error
FetchFail ==
    /\ pc = "page"
    /\ requests < MaxRequests
    /\ requests' = requests + 1
    /\ pc' = "failed"
    /\ UNCHANGED <<coll, remote, epoch, store, now, migrationChecked, op,
                   existingTrackIds, tracks, offset, progress, result, warned,
                   cacheAtCall, epochAtCall, prev>>

\* what the operation returns once the loop has ended
Outcome ==
    IF op.kind = "resync"
    THEN Returned(FALSE, TRUE, tracks, Added(tracks, existingTrackIds),
                  Removed(existingTrackIds, tracks))
    ELSE Returned(FALSE, TRUE, tracks, <<>>, <<>>)

\* the record lines 235-240, 343-348, 436-442 build
FreshRecord ==
    CacheRecord(CACHE_VERSION, TRUE,
                IF Minimizes(coll) THEN MinimalTracks(tracks) ELSE tracks,
                now)

\* idbSet succeeds; the operation returns
PersistOk ==
    /\ pc = "persist"
    /\ store' = FreshRecord
    /\ result' = Outcome
    /\ pc' = "done"
    /\ UNCHANGED <<coll, remote, epoch, now, migrationChecked, op, existingTrackIds,
                   tracks, offset, requests, progress, warned, cacheAtCall,
                   epochAtCall, prev>>

PersistFail_rethrows ==
    /\ pc = "persist"
    /\ warned' = TRUE
    /\ result' = NoResult
    /\ pc' = "done"
    /\ UNCHANGED <<coll, remote, epoch, store, now, migrationChecked, op,
                   existingTrackIds, tracks, offset, requests, progress, cacheAtCall,
                   epochAtCall, prev>>

\* idbSet rejects (quota exceeded): caught, warned, the records still returned
PersistFail ==
    /\ pc = "persist"
    /\ warned' = TRUE
    /\ result' = Outcome
    /\ pc' = "done"
    /\ UNCHANGED <<coll, remote, epoch, store, now, migrationChecked, op,
                   existingTrackIds, tracks, offset, requests, progress, cacheAtCall,
                   epochAtCall, prev>>

\* the caller has used the result; the next operation may be called
Return ==
    /\ pc \in {"done", "failed"}
    /\ prev' = [kind |-> op.kind,
                putOk |-> pc = "done" /\ ~result.fromCache /\ ~warned,
                epochAtCall |-> epochAtCall]
    /\ pc' = "idle"
    /\ op' = NoOp
    /\ result' = NoResult
    /\ existingTrackIds' = <<>>
    /\ tracks' = <<>>
    /\ offset' = 0
    /\ requests' = 0
    /\ progress' = <<>>
    /\ warned' = FALSE
    /\ cacheAtCall' = NoRecord
    /\ epochAtCall' = epoch
    /\ UNCHANGED <<coll, remote, epoch, store, now, migrationChecked>>

\* the user saves a track / adds an item to the playlist elsewhere
RemoteAdd ==
    /\ epoch < MaxChanges
    /\ Len(remote) < MaxTotal
    /\ \E item \in {Track(MaxTotal + epoch + 1)}
                     \cup (IF FiltersNull(coll) THEN {NullTrack} ELSE {}) :
           remote' = Append(remote, item)
    /\ epoch' = epoch + 1
    /\ UNCHANGED <<coll, store, now, migrationChecked, pc, op, existingTrackIds,
                   tracks, offset, requests, progress, result, warned, cacheAtCall,
                   epochAtCall, prev>>

\* the user removes the first item elsewhere
RemoteRemove ==
    /\ epoch < MaxChanges
    /\ remote # <<>>
    /\ remote' = Tail(remote)
    /\ epoch' = epoch + 1
    /\ UNCHANGED <<coll, store, now, migrationChecked, pc, op, existingTrackIds,
                   tracks, offset, requests, progress, result, warned, cacheAtCall,
                   epochAtCall, prev>>

\* the instants sampled after time 0: the end of the 24 h window and, for
\* the collection whose read compares the age with it, its last millisecond
Instants(c) == IF c = "PLAYLISTS" THEN {DAY_MS - 1, DAY_MS} ELSE {DAY_MS}

\* time passes between two operations
Tick ==
    /\ pc = "idle"
    /\ now = 0
    /\ now' \in Instants(coll)
    /\ UNCHANGED <<coll, remote, epoch, store, migrationChecked, pc, op,
                   existingTrackIds, tracks, offset, requests, progress, result,
                   warned, cacheAtCall, epochAtCall, prev>>

SyncInit ==
    /\ coll \in Collections
    /\ remote \in InitRemotes(coll)
    /\ epoch = 0
    /\ store \in InitStores(coll)
    /\ now = 0
    /\ migrationChecked = FALSE
    /\ pc = "idle"
    /\ op = NoOp
    /\ existingTrackIds = <<>>
    /\ tracks = <<>>
    /\ offset = 0
    /\ requests = 0
    /\ progress = <<>>
    /\ result = NoResult
    /\ warned = FALSE
    /\ cacheAtCall = NoRecord
    /\ epochAtCall = 0
    /\ prev = NoPrev

(***************************************************************************)
(* Properties of the collection synchronizer.                              *)
(***************************************************************************)
\* the remote collection has not changed since the running operation was called
Stable == epoch = epochAtCall

\* the page loop of the running operation has ended
LoopEnded == pc = "persist" \/ (pc = "done" /\ ~result.fromCache)

NoNulls == \A i \in 1..Len(remote) : remote[i] # NullTrack

\* the running operation is a read with forceRefresh = false that found a
\* record of another schema version
StaleRead ==
    /\ op.kind = "fetch"
    /\ ~op.forceRefresh
    /\ cacheAtCall.present
    /\ cacheAtCall.version # CACHE_VERSION

\* every progress report of the running operation is a page of the network fetch
ProgressFromNetwork ==
    /\ Len(progress) = (IF ReportsProgress(coll) THEN requests ELSE 0)
    /\ \A i \in 1..Len(progress) :
           \A j \in 1..Len(progress[i].newTracks) :
               \E k \in 1..Len(tracks) : tracks[k] = progress[i].newTracks[j]

\* C1: a read with forceRefresh = false that finds a record whose version is
\* not CACHE_VERSION deletes the record and goes on exactly as the same read
\* does from an empty store (first page request at offset 0, nothing
\* accumulated, nothing reported, nothing returned); whatever the payload,
\* it is never returned nor reported, and the read ends with the freshly
\* fetched records returned and with the store holding the fresh record or,
\* when the final put fails, nothing.
C1_StaleVersionReadsLikeColdCache ==
    /\ [][(/\ pc = "idle"
           /\ pc' # "idle"
           /\ op'.kind = "fetch"
           /\ ~op'.forceRefresh
           /\ store.present
           /\ store.version # CACHE_VERSION)
          => (/\ store' = NoRecord
              /\ pc' = "page"
              /\ offset' = 0
              /\ requests' = 0
              /\ tracks' = <<>>
              /\ progress' = <<>>
              /\ result' = NoResult)]_syncVars
    /\ [](StaleRead => /\ ProgressFromNetwork
                       /\ pc = "page" => store = NoRecord
                       /\ pc = "done" => /\ ~result.fromCache
                                         /\ result.tracks = tracks
                                         /\ store = (IF warned THEN NoRecord ELSE FreshRecord)
                                         /\ Stable => result.tracks = remote)

\* C1 witness: such a read has returned a non-empty fetch spanning two pages
\* and the store holds the fresh record
C1_Witness ==
    /\ StaleRead
    /\ cacheAtCall.payload # <<>>
    /\ pc = "done"
    /\ requests >= 2
    /\ store = FreshRecord

\* C3: a fetch of a playlist's tracks, nulls included, never asks for a page
\* beyond the declared total, and returns as many records as the playlist
\* has non-null items.
C3_PlaylistFetchStopsAfterLastPage ==
    (coll = "PLAYLIST_TRACKS" /\ Stable)
        => /\ pc = "page" => offset < Max(1, Len(remote))
           /\ LoopEnded => Len(tracks) = Len(ValidTracks(coll, remote))

\* C4 as stated: with a stable total N and no null items a full fetch issues
\* exactly ceil(N / P) page requests and returns N records.
C4_Original ==
    (LoopEnded /\ Stable /\ NoNulls)
        => /\ requests = CeilDiv(Len(remote), limit(coll))
           /\ Len(tracks) = Len(remote)

\* C4 amended: with a stable total N and no null items a full fetch issues
\* exactly max(1, ceil(N / P)) page requests (an empty collection still costs
\* the one request that reports total = 0) and returns exactly the N records.
C4_PageRequests ==
    (LoopEnded /\ Stable /\ NoNulls)
        => /\ requests = Max(1, CeilDiv(Len(remote), limit(coll)))
           /\ tracks = remote
           /\ pc = "done" => result.tracks = remote

\* C4 witness: a three-page fetch has returned
C4_Witness ==
    /\ pc = "done"
    /\ ~result.fromCache
    /\ Stable
    /\ requests = 3
    /\ Len(result.tracks) = MaxTotal

\* ids of a stored record, read from the record itself
RecordIds(rec) ==
    IF rec.present /\ rec.wellFormed
    THEN {rec.payload[i].id : i \in 1..Len(rec.payload)}
    ELSE {}

Range(s) == {s[i] : i \in 1..Len(s)}

\* C5: a resync returns added = the fresh records whose id is not in the
\* record cached when it was called (whatever that record's version or age),
\* removed = the cached ids absent from the fresh records, the two disjoint,
\* and tracks = the full fresh list.
C5_ResyncDiff ==
    (pc = "done" /\ op.kind = "resync")
        => LET A == RecordIds(cacheAtCall)
               B == IdSet(tracks)
           IN  /\ IdSet(result.added) = B \ A
               /\ Range(result.removed) = A \ B
               /\ IdSet(result.added) \cap Range(result.removed) = {}
               /\ result.tracks = tracks
               /\ Stable => result.tracks = remote
               /\ \A i \in 1..Len(result.added) :
                      \E k \in 1..Len(tracks) : tracks[k] = result.added[i]

\* C5 witness: a resync over a record of the previous version has returned
\* with something added and something removed
C5_Witness ==
    /\ pc = "done"
    /\ op.kind = "resync"
    /\ cacheAtCall.present
    /\ cacheAtCall.version # CACHE_VERSION
    /\ result.added # <<>>
    /\ result.removed # <<>>
    /\ Len(result.added) < Len(result.tracks)

\* the running operation is the second of two resyncs in a row, the remote
\* collection unchanged since the first was called
SecondResync ==
    /\ pc = "done"
    /\ op.kind = "resync"
    /\ prev.kind = "resync"
    /\ prev.epochAtCall = epoch

\* C6 as stated: the second of two resyncs in a row over an unchanged remote
\* collection returns added = [] and removed = [].
C6_Original ==
    SecondResync => (result.added = <<>> /\ result.removed = <<>>)

\* C6 amended: the second of two resyncs in a row over an unchanged remote
\* collection returns added = [] and removed = [], provided the first
\* resync's cache write succeeded.
C6_SecondResyncEmpty ==
    (SecondResync /\ prev.putOk) => (result.added = <<>> /\ result.removed = <<>>)

\* C6 witness: a second resync over a non-empty unchanged collection has returned
C6_Witness ==
    /\ SecondResync
    /\ prev.putOk
    /\ Len(result.tracks) >= 2

\* the step is the call of a read with forceRefresh = false that finds a
\* record of the current version
PlainReadOfCurrent ==
    /\ pc = "idle"
    /\ pc' # "idle"
    /\ op'.kind = "fetch"
    /\ ~op'.forceRefresh
    /\ store.present
    /\ store.version = CACHE_VERSION

\* the running operation is such a read
PlainReadOfCurrentRuns ==
    /\ pc # "idle"
    /\ op.kind = "fetch"
    /\ ~op.forceRefresh
    /\ cacheAtCall.present
    /\ cacheAtCall.version = CACHE_VERSION

\* C17: a library read with forceRefresh = false that finds a (well-formed)
\* record of the current version issues no remote request however old the
\* record is, reports progress once with current = total = the number of
\* cached records and the whole reconstructed list, and returns that list;
\* the library is fetched from the network only on forceRefresh or resync,
\* or when no usable record of the current version is stored.
C17_LibraryHitWhateverAge ==
    /\ [][(PlainReadOfCurrent /\ coll = "LIBRARY" /\ store.wellFormed)
          => LET list == [i \in 1..Len(store.payload) |->
                             [id |-> store.payload[i].id,
                              images |-> IF store.payload[i].hasImage THEN 1 ELSE 0]]
             IN  /\ pc' = "done"
                 /\ requests' = 0
                 /\ progress' = <<[current |-> Len(list), total |-> Len(list),
                                   newTracks |-> list]>>
                 /\ result'.returned
                 /\ result'.tracks = list
                 /\ store' = store]_syncVars
    /\ [][(coll = "LIBRARY" /\ pc = "idle" /\ pc' = "page")
          => \/ op'.forceRefresh
             \/ ~store.present
             \/ store.version # CACHE_VERSION
             \/ ~store.wellFormed]_syncVars
    /\ []((PlainReadOfCurrentRuns /\ coll = "LIBRARY" /\ cacheAtCall.wellFormed)
          => (pc = "done" /\ requests = 0 /\ Len(progress) = 1))

\* C17 witness: a library read has returned two cached records from a record
\* a day old
C17_Witness ==
    /\ coll = "LIBRARY"
    /\ PlainReadOfCurrentRuns
    /\ pc = "done"
    /\ result.fromCache
    /\ now - cacheAtCall.lastSynced >= 86400000
    /\ Len(result.tracks) = 2

\* what C18 says of the call of fetchUserPlaylists, and of the requests of
\* the refetch
PlaylistsReadByAge ==
    /\ [][(PlainReadOfCurrent /\ coll = "PLAYLISTS")
          => IF now - store.lastSynced < 86400000
             THEN /\ pc' = "done"
                  /\ result'.returned
                  /\ result'.tracks = store.payload
                  /\ requests' = 0
                  /\ store' = store
             ELSE /\ pc' = "page"
                  /\ offset' = 0
                  /\ tracks' = <<>>
                  /\ result' = NoResult]_syncVars
    /\ []((PlainReadOfCurrentRuns /\ coll = "PLAYLISTS" /\ pc = "done"
           /\ now - cacheAtCall.lastSynced >= 86400000)
          => /\ ~result.fromCache
             /\ result.tracks = tracks
             /\ Stable => (/\ result.tracks = remote
                           /\ requests = Max(1, CeilDiv(Len(remote), limit(coll)))))

\* the refetch of an expired playlist list has written its record
ExpiredPlaylistsReplaced ==
    /\ store.present
    /\ store.version = CACHE_VERSION
    /\ store.payload = tracks
    /\ store.lastSynced = now

\* C18 as stated: a plain read of the playlist list returns the cached
\* playlists with no request while now - lastSynced < 24 h; from 24 h on it
\* refetches every page and the cache is replaced, with a fresh lastSynced.
C18_Original ==
    (PlainReadOfCurrentRuns /\ coll = "PLAYLISTS" /\ pc = "done"
     /\ now - cacheAtCall.lastSynced >= 86400000) => ExpiredPlaylistsReplaced

\* C18 amended: a plain read of the playlist list returns the cached
\* playlists with no request while now - lastSynced < 24 h; from 24 h on it
\* refetches every page, and the cache is replaced, with a fresh lastSynced,
\* unless the write of the record fails (the old record then stays).
C18_PlaylistsExpireAfterADay ==
    /\ PlaylistsReadByAge
    /\ []((PlainReadOfCurrentRuns /\ coll = "PLAYLISTS" /\ pc = "done"
           /\ now - cacheAtCall.lastSynced >= 86400000)
          => IF warned THEN store = cacheAtCall ELSE ExpiredPlaylistsReplaced)

\* C18 witness: a read of a list exactly 24 h old has refetched two pages
\* and replaced the record
C18_Witness ==
    /\ PlainReadOfCurrentRuns
    /\ coll = "PLAYLISTS"
    /\ pc = "done"
    /\ now - cacheAtCall.lastSynced = 86400000
    /\ requests >= 2
    /\ ExpiredPlaylistsReplaced
    /\ store # cacheAtCall

\* C19: a plain read of a playlist's tracks that finds a record of the
\* current version older than the freshness window fetches from the network
\* instead of returning the cached tracks.
C19_PlaylistTracksExpire ==
    [][(PlainReadOfCurrent /\ coll = "PLAYLIST_TRACKS" /\ store.wellFormed
        /\ now - store.lastSynced >= 86400000)
       => (pc' = "page" /\ result' = NoResult)]_syncVars

\* C20: when the write of the freshly fetched records fails, the operation
\* still returns all of them, raises nothing, reports a warning, and the
\* stored record stays what it was before the write (the record found at the
\* call, or none when the read had deleted a record of another version).
C20_PersistFailureIsSoft ==
    /\ [][(pc = "persist" /\ pc' = "done" /\ warned')
          => (/\ store' = store
              /\ result'.returned
              /\ result'.tracks = tracks)]_syncVars
    /\ []((pc = "done" /\ warned)
          => /\ result.returned
             /\ result.tracks = tracks
             /\ Len(result.tracks) = Len(ValidTracks(coll, remote)) \/ ~Stable
             /\ store = (IF op.forceRefresh \/ ~cacheAtCall.present
                            \/ cacheAtCall.version = CACHE_VERSION
                         THEN cacheAtCall ELSE NoRecord))

\* C20 witness: a forced refresh over a current record fetched three records,
\* failed to store them, and returned them with the old record in place
C20_Witness ==
    /\ pc = "done"
    /\ warned
    /\ op.forceRefresh
    /\ cacheAtCall.present
    /\ cacheAtCall.version = CACHE_VERSION
    /\ store = cacheAtCall
    /\ Len(result.tracks) >= 3
    /\ result.tracks = remote

Counts == [i \in 1..Len(progress) |-> progress[i].current]

\* C30: within one paginated fetch of library or playlist tracks (no cache
\* hit) the k-th page request is made at offset (k-1) * limit, every request
\* made so far has been answered and reported to the progress callback
\* exactly once before the next one is made, the reported counts never
\* decrease, and once the loop has ended the last count is the number of
\* records the fetch returns; one step never makes more than one request.
C30_PagesInOrder ==
    /\ [](/\ coll # "PLAYLISTS"
          /\ pc \in {"page", "persist"} \/ (pc = "done" /\ result.returned /\ ~result.fromCache)
          => /\ Len(progress) = requests
             /\ pc = "page" => offset = requests * limit(coll)
             /\ pc # "page" => (requests >= 1 /\ offset = (requests - 1) * limit(coll))
             /\ \A i \in 1..Len(progress) : \A j \in i..Len(progress) :
                    Counts[i] <= Counts[j]
             /\ pc # "page" => Counts[Len(progress)] = Len(tracks)
             /\ pc = "done" => Counts[Len(progress)] = Len(result.tracks))
    /\ [][requests' # requests =>
              \/ requests' = 0
              \/ /\ requests' = requests + 1
                 /\ coll # "PLAYLISTS" =>
                        /\ Len(progress') = Len(progress) + 1
                        /\ progress'[Len(progress')].current = Len(tracks')
                        /\ progress'[Len(progress')].total = Len(remote)]_syncVars

\* C30 witness: a library fetch over MaxTotal records has returned after three
\* page requests with the counts PageScale, 2 * PageScale, MaxTotal
C30_Witness ==
    /\ coll = "LIBRARY"
    /\ pc = "done"
    /\ result.returned /\ ~result.fromCache
    /\ requests = 3
    /\ offset = 2 * PageScale
    /\ Counts = <<PageScale, 2 * PageScale, MaxTotal>>
    /\ Len(result.tracks) = MaxTotal

(***************************************************************************)
(* Constants and the retry test of retryWithBackoff, which wraps every     *)
(* request of the synchronizer and with it every call of getAccessToken.   *)
(***************************************************************************)
MAX_RETRIES == 3
INITIAL_DELAY == 1000
JITTER_MS == 200

IsRetryable_any4xx(status) == status >= 400
\* `status === 429 || status >= 500`
IsRetryable(status) == status = 429 \/ status >= 500

(***************************************************************************)
(* Token authority: getStoredTokens, getAccessToken, refreshAccessToken.   *)
(* Callers are the concurrent invocations of getAccessToken (the lookups   *)
(* of one batchFetchArtistFollowers batch run under Promise.all); each     *)
(* runs to its `await refreshAccessToken(...)` and resumes when the token  *)
(* endpoint answers.                                                       *)
(***************************************************************************)
\* concurrent invocations of getAccessToken
NumCallers == 2
\* most times the clock advances (by five minutes)
MaxClockTicks == 2
\* most tokens the token endpoint issues in one behaviour
MaxIssued == 3

FIVE_MIN_MS == 300000
\* `expires_in` of the token endpoint's response, in seconds
EXPIRES_IN_S == 3600

Callers == 1..NumCallers

VARIABLES
    stored,        \* localStorage 'spotify_tokens'
    clock,         \* Date.now()
    cpc,           \* position of each invocation of getAccessToken
    sentRefresh,   \* the refresh token each invocation sent
    returned,      \* the access token each invocation returned
    failure,       \* the error each invocation threw
    refreshSent,   \* refresh requests received by the token endpoint
    issued,        \* tokens issued by the token endpoint
    redirected,    \* window.location.href was set to the login page
    tries,         \* retries retryWithBackoff made of each invocation's request
    outbound       \* the latest request sent to the remote API

tokenVars == <<stored, clock, cpc, sentRefresh, returned, failure, refreshSent,
               issued, redirected, tries, outbound>>

\* a request to the remote API: who sent it, the access token it carries and
\* how long before its expiry the sender obtained that token
Request(by, tokens, t) ==
    [by |-> by, access_token |-> tokens.access_token, slack |-> tokens.expires_at - t]
NoRequest == [by |-> "none", access_token |-> 0, slack |-> 0]

NoTokens == [present |-> FALSE]
AuthTokens(access, refresh, expiresAt) ==
    [present |-> TRUE, access_token |-> access, refresh_token |-> refresh,
     expires_at |-> expiresAt]

\* getStoredTokens: the stored record, or null once it has expired
getStoredTokens(item, t) ==
    IF ~item.present THEN NoTokens
    ELSE IF t >= item.expires_at THEN NoTokens
    ELSE item

\* `Date.now() >= tokens.expires_at - 5 * 60 * 1000`
NeedsRefresh(tokens, t) == t >= tokens.expires_at - FIVE_MIN_MS

\* getAccessToken up to its first await
GetAccessToken(c) ==
    /\ cpc[c] = "idle"
    /\ ~redirected
    /\ LET tokens == getStoredTokens(stored, clock)
       IN  IF ~tokens.present
           THEN \* clear the stored state, redirect to login, throw
                /\ stored' = NoTokens
                /\ redirected' = TRUE
                /\ cpc' = [cpc EXCEPT ![c] = "failed"]
                /\ failure' = [failure EXCEPT ![c] = "No authentication tokens found"]
                /\ UNCHANGED <<sentRefresh, returned, refreshSent, outbound>>
           ELSE IF NeedsRefresh(tokens, clock)
           THEN \* refreshAccessToken(tokens.refresh_token): POST to the token endpoint
                /\ refreshSent < MaxIssued
                /\ cpc' = [cpc EXCEPT ![c] = "refreshing"]
                /\ sentRefresh' = [sentRefresh EXCEPT ![c] = tokens.refresh_token]
                /\ refreshSent' = refreshSent + 1
                /\ UNCHANGED <<stored, redirected, returned, failure, outbound>>
           ELSE \* the token is returned and fetchFromSpotify sends its request
                /\ cpc' = [cpc EXCEPT ![c] = "returned"]
                /\ returned' = [returned EXCEPT ![c] = tokens.access_token]
                /\ outbound' = Request("fetchFromSpotify", tokens, clock)
                /\ UNCHANGED <<stored, redirected, sentRefresh, failure, refreshSent>>
    /\ UNCHANGED <<clock, issued, tries>>

\* the token endpoint answers 200: the new credential is stored and returned;
\* a response without refresh_token keeps the one that was sent
RefreshTokenAfter_dropped(responseToken, refreshToken) == responseToken
\* `data.refresh_token || refreshToken`; a response without one carries 0
RefreshTokenAfter(responseToken, refreshToken) ==
    IF responseToken # 0 THEN responseToken ELSE refreshToken

RefreshOk(c) ==
    /\ cpc[c] = "refreshing"
    /\ issued < MaxIssued
    /\ \E rotates \in BOOLEAN :
          LET access == issued + 1
              refresh == RefreshTokenAfter(IF rotates THEN issued + 1 ELSE 0,
                                           sentRefresh[c])
              tokens == AuthTokens(access, refresh, clock + EXPIRES_IN_S * 1000)
          IN  /\ stored' = tokens
              /\ returned' = [returned EXCEPT ![c] = tokens.access_token]
              /\ outbound' = Request("fetchFromSpotify", tokens, clock)
    /\ issued' = issued + 1
    /\ cpc' = [cpc EXCEPT ![c] = "returned"]
    /\ UNCHANGED <<clock, sentRefresh, failure, refreshSent, redirected, tries>>

\* the token endpoint refuses: stored state cleared, redirect, error rethrown
RefreshFail(c) ==
    /\ cpc[c] = "refreshing"
    /\ stored' = NoTokens
    /\ redirected' = TRUE
    /\ cpc' = [cpc EXCEPT ![c] = "failed"]
    /\ failure' = [failure EXCEPT ![c] = "Failed to refresh token"]
    /\ UNCHANGED <<clock, sentRefresh, returned, refreshSent, issued, tries, outbound>>

StatusOf_serverError(message) == 500
\* `err?.status || 0` of an error getAccessToken threw: it carries no status
StatusOf(message) == 0

\* the catch block of retryWithBackoff around a failed getAccessToken:
\* rethrow, or go round the loop
Propagate(c) ==
    /\ cpc[c] = "failed"
    /\ IF ~IsRetryable(StatusOf(failure[c])) \/ tries[c] = MAX_RETRIES
       THEN /\ cpc' = [cpc EXCEPT ![c] = "thrown"]
            /\ UNCHANGED <<tries, failure>>
       ELSE /\ cpc' = [cpc EXCEPT ![c] = "idle"]
            /\ tries' = [tries EXCEPT ![c] = tries[c] + 1]
            /\ failure' = [failure EXCEPT ![c] = ""]
    /\ UNCHANGED <<stored, clock, sentRefresh, returned, refreshSent, issued,
                   redirected, outbound>>

\* a playback command or query of the player manager: it reads the stored
\* credential itself and sends its request with that access token
PlayerCommand ==
    /\ ~redirected
    /\ LET tokens == getStoredTokens(stored, clock)
       IN  /\ tokens.present
           /\ outbound' = Request("player", tokens, clock)
    /\ UNCHANGED <<stored, clock, cpc, sentRefresh, returned, failure, refreshSent,
                   issued, redirected, tries>>

\* the caller has consumed the outcome; the invocation slot is free again
Settle(c) ==
    /\ cpc[c] \in {"returned", "thrown"}
    /\ cpc' = [cpc EXCEPT ![c] = "idle"]
    /\ sentRefresh' = [sentRefresh EXCEPT ![c] = 0]
    /\ returned' = [returned EXCEPT ![c] = 0]
    /\ failure' = [failure EXCEPT ![c] = ""]
    /\ tries' = [tries EXCEPT ![c] = 0]
    /\ UNCHANGED <<stored, clock, refreshSent, issued, redirected, outbound>>

\* five minutes pass
ClockTick ==
    /\ clock < MaxClockTicks * FIVE_MIN_MS
    /\ clock' = clock + FIVE_MIN_MS
    /\ UNCHANGED <<stored, cpc, sentRefresh, returned, failure, refreshSent,
                   issued, redirected, tries, outbound>>

\* after the code exchange: a credential that expires in ten minutes is
\* stored, or none is
TokenInit ==
    /\ stored \in {NoTokens, AuthTokens(10, 10, 2 * FIVE_MIN_MS)}
    /\ clock = 0
    /\ cpc = [c \in Callers |-> "idle"]
    /\ sentRefresh = [c \in Callers |-> 0]
    /\ returned = [c \in Callers |-> 0]
    /\ failure = [c \in Callers |-> ""]
    /\ refreshSent = 0
    /\ issued = 0
    /\ redirected = FALSE
    /\ tries = [c \in Callers |-> 0]
    /\ outbound = NoRequest

\* C2: while the credential is expiring-soon, concurrent invocations of
\* getAccessToken share one in-flight refresh: never are two refresh
\* requests outstanding at the token endpoint at once.
C2_SingleRefreshInFlight ==
    Cardinality({c \in Callers : cpc[c] = "refreshing"}) <= 1

C14_RefreshWhenExpiringSoon ==
    [][\A c \in Callers :
          (cpc[c] = "idle" /\ cpc'[c] # "idle" /\ stored.present) =>
              IF clock >= stored.expires_at - 300000
              THEN /\ cpc'[c] = "refreshing"
                   /\ sentRefresh'[c] = stored.refresh_token
                   /\ refreshSent' = refreshSent + 1
                   /\ returned'[c] = 0
              ELSE /\ cpc'[c] = "returned"
                   /\ returned'[c] = stored.access_token
                   /\ refreshSent' = refreshSent]_tokenVars

\* C15: with no credential stored getAccessToken fails and sends no refresh
\* request; when the token endpoint refuses the refresh it fails with the
\* refresh error, a different one; either way no access token is returned,
\* the stored credential is removed, the redirect to login is triggered, and
\* retryWithBackoff rethrows the failure without a retry.
C15_AuthFailuresPropagate ==
    /\ [][\A c \in Callers :
             (cpc[c] = "idle" /\ cpc'[c] # "idle" /\ ~stored.present) =>
                 /\ cpc'[c] = "failed"
                 /\ failure'[c] = "No authentication tokens found"
                 /\ refreshSent' = refreshSent
                 /\ returned'[c] = 0
                 /\ ~stored'.present
                 /\ redirected']_tokenVars
    /\ [][\A c \in Callers :
             (cpc[c] = "refreshing" /\ cpc'[c] # "returned" /\ cpc'[c] # "refreshing") =>
                 /\ cpc'[c] = "failed"
                 /\ failure'[c] = "Failed to refresh token"
                 /\ returned'[c] = 0
                 /\ ~stored'.present
                 /\ redirected']_tokenVars
    /\ [][\A c \in Callers :
             (cpc[c] = "failed" /\ cpc'[c] # "failed") =>
                 /\ cpc'[c] = "thrown"
                 /\ tries'[c] = 0
                 /\ failure'[c] = failure[c]]_tokenVars
    /\ [](\A c \in Callers :
             cpc[c] \in {"failed", "thrown"} =>
                 /\ returned[c] = 0
                 /\ redirected
                 /\ tries[c] = 0
                 /\ failure[c] \in {"No authentication tokens found",
                                    "Failed to refresh token"})

\* C15 witness: a refused refresh has been thrown to the caller of
\* fetchFromSpotify, the credential gone and the redirect triggered
C15_Witness ==
    \E c \in Callers :
        /\ cpc[c] = "thrown"
        /\ failure[c] = "Failed to refresh token"
        /\ refreshSent >= 1
        /\ ~stored.present
        /\ redirected

\* C16: every request sent to the remote API, by the synchronizer or by the
\* player, carries an access token that was more than 5 minutes from its
\* expiry when the sender obtained it.
C16_RequestsCarryValidToken ==
    outbound.by # "none" => outbound.slack > 300000

(***************************************************************************)
(* Remote fetch gateway: retryWithBackoff as fetchFromSpotify uses it      *)
(* (maxRetries = 3, initialDelay = 1000).  An attempt is one run of the    *)
(* wrapped function: getAccessToken, the HTTP request, the status check.   *)
(***************************************************************************)
OK == 200
\* status of a failed attempt; 0 is an error that carries no status (a
\* network failure, or the error getAccessToken throws)
ErrorStatuses == {0, 404, 429, 500}

\* values of `Math.random() * 200`, which lies in [0, 200)
Jitters == {0, JITTER_MS \div 2, JITTER_MS - 1}

VARIABLES
    rpc,        \* position in retryWithBackoff
    attempt,    \* the loop variable
    outcomes,   \* status of every attempt made, in order
    delays,     \* every setTimeout delay waited, in order
    thrown      \* status of the error thrown to the caller, -1 when none

retryVars == <<rpc, attempt, outcomes, delays, thrown>>

RECURSIVE Pow2(_)
Pow2(n) == IF n = 0 THEN 1 ELSE 2 * Pow2(n - 1)

BackoffDelay_linear(initialDelay, n) == initialDelay * (n + 1)
\* `initialDelay * Math.pow(2, attempt)`
BackoffDelay(initialDelay, n) == initialDelay * Pow2(n)

\* fetchFromSpotify(endpoint) is called
RetryCall ==
    /\ rpc = "idle"
    /\ rpc' = "attempting"
    /\ attempt' = 0
    /\ outcomes' = <<>>
    /\ delays' = <<>>
    /\ thrown' = -1

\* `return await fn()`
AttemptOk ==
    /\ rpc = "attempting"
    /\ outcomes' = Append(outcomes, OK)
    /\ rpc' = "returned"
    /\ UNCHANGED <<attempt, delays, thrown>>

\* fn() rejects: rethrow, or compute the delay and wait
AttemptFail ==
    /\ rpc = "attempting"
    /\ \E status \in ErrorStatuses, jitter \in Jitters :
          /\ outcomes' = Append(outcomes, status)
          /\ IF ~IsRetryable(status) \/ attempt = MAX_RETRIES
             THEN /\ rpc' = "thrown"
                  /\ thrown' = status
                  /\ delays' = delays
             ELSE /\ rpc' = "waiting"
                  /\ delays' = Append(delays, BackoffDelay(INITIAL_DELAY, attempt) + jitter)
                  /\ thrown' = thrown
    /\ UNCHANGED attempt

\* the timer fires; the loop goes round
BackoffElapsed ==
    /\ rpc = "waiting"
    /\ attempt' = attempt + 1
    /\ rpc' = "attempting"
    /\ UNCHANGED <<outcomes, delays, thrown>>

\* the caller has the value or the error
RetrySettle ==
    /\ rpc \in {"returned", "thrown"}
    /\ rpc' = "idle"
    /\ attempt' = 0
    /\ outcomes' = <<>>
    /\ delays' = <<>>
    /\ thrown' = -1

RetryInit ==
    /\ rpc = "idle"
    /\ attempt = 0
    /\ outcomes = <<>>
    /\ delays = <<>>
    /\ thrown = -1

\* C7: an attempt is followed by another only when it failed with 429 or a
\* status >= 500; any other failure is thrown at once, with no delay after
\* it (so after exactly one attempt when it is the first); at most 4
\* attempts are made, and a fourth retryable failure is thrown as it is.
C7_RetryPolicy ==
    /\ Len(outcomes) <= 4
    /\ \A i \in 1..(Len(outcomes) - 1) : outcomes[i] = 429 \/ outcomes[i] >= 500
    /\ Len(delays) = (IF rpc \in {"waiting", "attempting"} THEN Len(outcomes)
                      ELSE Max(0, Len(outcomes) - 1))
    /\ rpc = "waiting" =>
           /\ Len(outcomes) <= 3
           /\ outcomes[Len(outcomes)] = 429 \/ outcomes[Len(outcomes)] >= 500
    /\ rpc = "thrown" =>
           /\ thrown = outcomes[Len(outcomes)]
           /\ thrown # OK
           /\ (thrown = 429 \/ thrown >= 500) => Len(outcomes) = 4
    /\ (rpc = "attempting" /\ outcomes # <<>>) =>
           outcomes[Len(outcomes)] \in {429} \cup {st \in ErrorStatuses : st >= 500}
    /\ (outcomes # <<>> /\ outcomes[1] \notin {OK, 429} /\ outcomes[1] < 500) =>
           /\ rpc = "thrown"
           /\ Len(outcomes) = 1
           /\ delays = <<>>

\* C7 witness: a 404 after two retried failures has been thrown, and so has
\* a fourth 500
C7_Witness ==
    /\ rpc = "thrown"
    /\ \/ outcomes = <<429, 500, 404>>
       \/ outcomes = <<500, 500, 500, 500>>

\* C8: a request that fails with 429 three times and then succeeds has
\* waited exactly 3 delays, the n-th at least 1000 * 2^(n-1) ms and less than
\* 1000 * 2^(n-1) + 200 ms.
C8_BackoffSchedule ==
    /\ \A n \in 1..Len(delays) :
           /\ delays[n] >= 1000 * Pow2(n - 1)
           /\ delays[n] < 1000 * Pow2(n - 1) + 200
    /\ (rpc = "returned" /\ outcomes = <<429, 429, 429, OK>>) => Len(delays) = 3

\* C8 witness: such a request has returned, its third delay above 4000 ms
C8_Witness ==
    /\ rpc = "returned"
    /\ outcomes = <<429, 429, 429, OK>>
    /\ Len(delays) = 3
    /\ delays[1] = 1000
    /\ delays[3] > 4000

(***************************************************************************)
(* Playback control: PlayerManager (src/shared/player.ts).  A call of      *)
(* playTrack is a chain of steps, one per await; the device lists and the  *)
(* HTTP statuses are the environment's choice.                             *)
(***************************************************************************)
MaxBurstTimers == 2
MaxLifecycleDevices == 1

OUR_DEVICE_NAME == "Music League Helper"
OtherDeviceName == "Kitchen speaker"
DeviceIds == {"d1", "d2"}
SdkDeviceId == "d1"
NoDevice == ""
PlayStatuses == {204, 403, 404}

Device(id, name, active) == [id |-> id, name |-> name, is_active |-> active]
Devices ==
    {Device(id, name, a) : id \in DeviceIds,
                           name \in {OUR_DEVICE_NAME, OtherDeviceName},
                           a \in BOOLEAN}
\* the bodies of GET /me/player/devices: the ids in one list are distinct
DeviceLists ==
    {<<>>} \cup {<<d>> : d \in Devices}
           \cup {l \in {<<d, e>> : d \in Devices, e \in Devices} : l[1].id # l[2].id}

VARIABLES
    mode,             \* "none" (null), "sdk" or "connect"
    deviceId,
    player,           \* TRUE when this.player is set
    ipc,              \* position of initialize and of its caller
    hasTokens,        \* what getStoredTokens finds
    hasLocalPlayback,
    ppc,              \* position of the command in progress
    devices,          \* the list playTrack got at line 179
    rediscovered,     \* the list findOurDeviceId got
    cmds,             \* PUTs sent by the current call, in order
    responses,        \* their statuses, in order
    perror,           \* message of the error playTrack threw
    pollingInterval,  \* 0 (null) or the period in ms
    burstTimers,      \* pending timeouts of startFastPolling
    delivered,        \* states handed to the callback by the current call
    toggle            \* what the current togglePlay call has done

playerVars ==
    <<mode, deviceId, player, ipc, hasTokens, hasLocalPlayback, ppc, devices,
      rediscovered, cmds, responses, perror, pollingInterval, burstTimers,
      delivered, toggle>>

callVars ==
    <<ppc, devices, rediscovered, cmds, responses, perror, delivered, toggle>>
pollVars == <<pollingInterval, burstTimers>>
managerVars == <<mode, deviceId, player, ipc, hasTokens, hasLocalPlayback>>

PlayCmd(dev) == [kind |-> "play", device |-> dev]
TransferCmd(dev) == [kind |-> "transfer", device |-> dev]
\* what a togglePlay call has done so far: whether it found live local
\* playback, called player.togglePlay(), how many times it asked for the
\* remote state, what the first answer was, and whether a callback was
\* registered when the second answer came
ToggleRecord(called, local, delegated, queries, state, callback) ==
    [called |-> called, local |-> local, delegated |-> delegated,
     queries |-> queries, state |-> state, callback |-> callback]
NoToggle == ToggleRecord(FALSE, FALSE, FALSE, 0, "none", FALSE)

ToggleCmd_pause(paused) == [kind |-> "pause", device |-> NoDevice]
\* PUT /me/player/play or /me/player/pause, as togglePlay sends it
ToggleCmd(paused) ==
    [kind |-> IF paused THEN "resume" ELSE "pause", device |-> NoDevice]
\* PUT /me/player with play: true
TransferPlayCmd(dev) == [kind |-> "transferPlay", device |-> dev]
NotRediscovered == [done |-> FALSE, list |-> <<>>]

ResponseOk(status) == status >= 200 /\ status <= 299

HasActiveDevice_never(devs) == FALSE
\* `devices.find(d => d.is_active)`
HasActiveDevice(devs) == \E i \in DOMAIN devs : devs[i].is_active

FindOurDeviceId_first(devs) == IF devs = <<>> THEN NoDevice ELSE devs[1].id
\* `devices.find(d => d.name === 'Music League Helper')?.id || null`
FindOurDeviceId(devs) ==
    LET named == {i \in DOMAIN devs : devs[i].name = OUR_DEVICE_NAME}
    IN  IF named = {} THEN NoDevice
        ELSE devs[CHOOSE i \in named : \A j \in named : i <= j].id

\* initialize(onStateChange) up to the race of line 82
Initialize ==
    /\ ipc \in {"none", "disconnected"}
    /\ ipc' = "loading"
    /\ UNCHANGED <<mode, deviceId, player, hasTokens, hasLocalPlayback, callVars, pollVars>>

\* the runtime loaded in time: build the player and connect, or reject
SdkLoaded ==
    /\ ipc = "loading"
    /\ \/ /\ hasTokens
          /\ player' = TRUE
          /\ ipc' = "connecting"
          /\ mode' = mode
       \/ /\ ipc' = "done"
          /\ mode' = "connect"
          /\ player' = player
    /\ UNCHANGED <<deviceId, hasTokens, hasLocalPlayback, callVars, pollVars>>

\* the 5000 ms timer of line 78 fires: it wins the race of line 82, or the
\* race is over and its rejection is dropped ("waiting": the 5 s have
\* passed and initialize still awaits the player)
SdkTimeout ==
    /\ \/ /\ ipc = "loading"
          /\ ipc' = "done"
          /\ mode' = "connect"
       \/ /\ ipc = "connecting"
          /\ ipc' = "waiting"
          /\ mode' = mode
    /\ UNCHANGED <<deviceId, player, hasTokens, hasLocalPlayback, callVars, pollVars>>

\* the 'ready' listener, then the continuation of initialize
Ready ==
    /\ ipc \in {"connecting", "waiting"}
    /\ deviceId' = SdkDeviceId
    /\ mode' = "sdk"
    /\ ipc' = "done"
    /\ UNCHANGED <<player, hasTokens, hasLocalPlayback, callVars, pollVars>>

\* an initialization, authentication or account error, or connect() rejects
SdkError ==
    /\ ipc \in {"connecting", "waiting"}
    /\ mode' = "connect"
    /\ ipc' = "done"
    /\ UNCHANGED <<deviceId, player, hasTokens, hasLocalPlayback, callVars, pollVars>>

\* startPolling(intervalMs) on a loop of period `interval` (0: none)
PollingAfterStart(interval, intervalMs) ==
    IF interval # 0 THEN interval ELSE intervalMs

\* the caller of initialize goes on, in the task that settled it:
\* playerManager.startPolling() or startPolling(3000)
StartPolling ==
    /\ ipc = "done"
    /\ ipc' = "started"
    /\ \E intervalMs \in {3000, 10000} :
          pollingInterval' = PollingAfterStart(pollingInterval, intervalMs)
    /\ UNCHANGED <<mode, deviceId, player, hasTokens, hasLocalPlayback, callVars,
                   burstTimers>>

\* the 'player_state_changed' listener; the local player emits the event
\* in later tasks than 'ready'
PlayerStateChanged ==
    /\ player
    /\ mode = "sdk"
    /\ ipc = "started"
    /\ \E hasPlayback \in BOOLEAN :
          /\ pollingInterval' =
                 IF hasPlayback /\ ~hasLocalPlayback THEN 0
                 ELSE IF ~hasPlayback /\ hasLocalPlayback
                 THEN PollingAfterStart(pollingInterval, 10000)
                 ELSE pollingInterval
          /\ hasLocalPlayback' = hasPlayback
    /\ UNCHANGED <<mode, deviceId, player, ipc, hasTokens, callVars, burstTimers>>

\* disconnect(), the cleanup of the component that called initialize: it
\* may come while initialize still awaits the runtime or the player, or
\* after the component started its loop ("disconnected": unmounted, no
\* initialize in progress).  The timers of startFastPolling stay pending.
Disconnect ==
    /\ ipc \in {"loading", "connecting", "waiting", "started"}
    /\ pollingInterval' = 0
    /\ IF player
       THEN player' = FALSE /\ deviceId' = NoDevice /\ mode' = "none"
       ELSE UNCHANGED <<player, deviceId, mode>>
    /\ ipc' = IF ipc = "started" THEN "disconnected" ELSE ipc
    /\ UNCHANGED <<hasTokens, hasLocalPlayback, callVars, burstTimers>>

\* the call goes on to its next await; it has not touched the polling loop
Goto(position) ==
    /\ ppc' = position
    /\ perror' = perror
    /\ UNCHANGED pollVars

Throw_stopsPolling(message) ==
    /\ ppc' = "failed"
    /\ perror' = message
    /\ pollingInterval' = 0
    /\ burstTimers' = burstTimers
\* `throw new Error(message)`: the call ends, the polling loop as it was
Throw(message) ==
    /\ ppc' = "failed"
    /\ perror' = message
    /\ UNCHANGED pollVars

\* playTrack(trackUri) up to the device query
PlayTrack ==
    /\ ppc = "idle"
    /\ burstTimers < MaxBurstTimers
    /\ IF hasTokens
       THEN Goto("devices")
       ELSE Throw("No authentication tokens")
    /\ UNCHANGED <<toggle, devices, rediscovered, cmds, responses, delivered, managerVars>>

\* getAvailableDevices answers; the branch is chosen and its PUT sent
DevicesResponse ==
    /\ ppc = "devices"
    /\ \/ /\ Throw("Failed to fetch devices")
          /\ UNCHANGED <<devices, cmds>>
       \/ \E devs \in DeviceLists :
             /\ devices' = devs
             /\ IF HasActiveDevice(devs)
                THEN /\ cmds' = <<PlayCmd(NoDevice)>>
                     /\ Goto("playActive")
                ELSE IF mode = "sdk" /\ deviceId # NoDevice
                THEN /\ cmds' = <<PlayCmd(deviceId)>>
                     /\ Goto("playSdk")
                ELSE IF mode = "connect"
                THEN /\ cmds' = <<PlayCmd(NoDevice)>>
                     /\ Goto("playConnect")
                ELSE /\ Throw("Player not initialized")
                     /\ cmds' = cmds
    /\ UNCHANGED <<toggle, rediscovered, responses, delivered, managerVars>>

ActivePlayResponse ==
    /\ ppc = "playActive"
    /\ \E status \in PlayStatuses :
          /\ responses' = Append(responses, status)
          /\ IF ~ResponseOk(status) /\ status # 204
             THEN Throw("Failed to start playback on active device")
             ELSE Goto("poll")
    /\ UNCHANGED <<toggle, devices, rediscovered, cmds, delivered, managerVars>>

SdkPlayResponse ==
    /\ ppc = "playSdk"
    /\ \E status \in PlayStatuses :
          /\ responses' = Append(responses, status)
          /\ IF ResponseOk(status) THEN Goto("poll")
             ELSE IF status = 404 THEN Goto("discover")
             ELSE Throw("Failed to start playback via SDK")
    /\ UNCHANGED <<toggle, devices, rediscovered, cmds, delivered, managerVars>>

\* 500 ms later findOurDeviceId answers (<<>> also when its query failed);
\* the id is adopted and the transfer PUT sent, or the call gives up
Discover ==
    /\ ppc = "discover"
    /\ \E devs \in DeviceLists :
          LET apiDeviceId == FindOurDeviceId(devs)
          IN  /\ rediscovered' = [done |-> TRUE, list |-> devs]
              /\ IF apiDeviceId # NoDevice
                 THEN /\ deviceId' = apiDeviceId
                      /\ cmds' = Append(cmds, TransferCmd(apiDeviceId))
                      /\ Goto("activate")
                 ELSE /\ Throw("Could not find playback device. Please refresh the page.")
                      /\ UNCHANGED <<deviceId, cmds>>
    /\ UNCHANGED <<toggle, devices, responses, delivered, mode, player, ipc, hasTokens,
                   hasLocalPlayback>>

\* the transfer answers (any status is tolerated); 1000 ms later the retry
ActivateResponse ==
    /\ ppc = "activate"
    /\ \E status \in PlayStatuses :
          responses' = Append(responses, status)
    /\ cmds' = Append(cmds, PlayCmd(deviceId))
    /\ Goto("retry")
    /\ UNCHANGED <<toggle, devices, rediscovered, delivered, managerVars>>

RetryResponse ==
    /\ ppc = "retry"
    /\ \E status \in PlayStatuses :
          /\ responses' = Append(responses, status)
          /\ IF ~ResponseOk(status) /\ status # 204
             THEN Throw("Failed to start playback. Please try again.")
             ELSE Goto("poll")
    /\ UNCHANGED <<toggle, devices, rediscovered, cmds, delivered, managerVars>>

ConnectPlayResponse_generic ==
    /\ ppc = "playConnect"
    /\ \E status \in PlayStatuses :
          /\ responses' = Append(responses, status)
          /\ IF ResponseOk(status) THEN Goto("poll")
             ELSE Throw("Failed to start playback")
    /\ UNCHANGED <<toggle, devices, rediscovered, cmds, delivered, managerVars>>

\* the connect branch of playTrack: the PUT without device_id answers
ConnectPlayResponse ==
    /\ ppc = "playConnect"
    /\ \E status \in PlayStatuses :
          /\ responses' = Append(responses, status)
          /\ IF ResponseOk(status) THEN Goto("poll")
             ELSE IF status = 404
             THEN Throw("No active device found. Please open Spotify on one of your devices.")
             ELSE Throw("Failed to start playback")
    /\ UNCHANGED <<toggle, devices, rediscovered, cmds, delivered, managerVars>>

PollOnce_noTimer ==
    /\ ppc = "poll"
    /\ delivered' = (IF ipc # "none" THEN delivered + 1 ELSE delivered)
    /\ pollingInterval' = 2000
    /\ burstTimers' = burstTimers
    /\ ppc' = "returned"
    /\ UNCHANGED <<toggle, devices, rediscovered, cmds, responses, perror, managerVars>>

\* pollOnce, then startFastPolling(10000)
PollOnce ==
    /\ ppc = "poll"
    /\ delivered' = (IF ipc # "none" THEN delivered + 1 ELSE delivered)
    /\ pollingInterval' = 2000
    /\ burstTimers' = burstTimers + 1
    /\ ppc' = "returned"
    /\ UNCHANGED <<toggle, devices, rediscovered, cmds, responses, perror, managerVars>>

\* the timeout of startFastPolling: stopPolling, startPolling(10000)
BurstElapsed ==
    /\ burstTimers > 0
    /\ burstTimers' = burstTimers - 1
    /\ pollingInterval' = 10000
    /\ UNCHANGED <<managerVars, callVars>>

\* togglePlay() up to its first await
TogglePlay ==
    /\ ppc = "idle"
    /\ LET local == mode = "sdk" /\ player /\ hasLocalPlayback
       IN  IF ~hasTokens
           THEN /\ Throw("No authentication tokens")
                /\ toggle' = ToggleRecord(TRUE, local, FALSE, 0, "none", FALSE)
           ELSE IF local
           THEN /\ Goto("toggleLocal")
                /\ toggle' = ToggleRecord(TRUE, local, TRUE, 0, "none", FALSE)
           ELSE /\ Goto("toggleState")
                /\ toggle' = ToggleRecord(TRUE, local, FALSE, 1, "none", FALSE)
    /\ UNCHANGED <<devices, rediscovered, cmds, responses, delivered, managerVars>>

\* player.togglePlay() resolves
ToggleLocalDone ==
    /\ ppc = "toggleLocal"
    /\ ppc' = "returned"
    /\ UNCHANGED <<toggle, devices, rediscovered, cmds, responses, perror, delivered,
                   managerVars, pollVars>>

\* getCurrentPlaybackState answers: null, or a state paused or playing
ToggleStateResponse ==
    /\ ppc = "toggleState"
    /\ \/ /\ Throw("No active playback")
          /\ cmds' = cmds
          /\ toggle' = [toggle EXCEPT !.state = "absent"]
       \/ \E paused \in BOOLEAN :
             /\ cmds' = <<ToggleCmd(paused)>>
             /\ toggle' = [toggle EXCEPT !.state = IF paused THEN "paused" ELSE "playing"]
             /\ Goto("togglePut")
    /\ UNCHANGED <<devices, rediscovered, responses, delivered, managerVars>>

\* the PUT answers; on success the state is fetched again
TogglePutResponse ==
    /\ ppc = "togglePut"
    /\ \E status \in PlayStatuses :
          /\ responses' = Append(responses, status)
          /\ IF ~ResponseOk(status) /\ status # 204
             THEN /\ Throw("Failed to toggle playback")
                  /\ toggle' = toggle
             ELSE /\ Goto("toggleRepoll")
                  /\ toggle' = [toggle EXCEPT !.queries = @ + 1]
    /\ UNCHANGED <<devices, rediscovered, cmds, delivered, managerVars>>

\* the second getCurrentPlaybackState answers and goes to the callback
ToggleRepoll ==
    /\ ppc = "toggleRepoll"
    /\ delivered' = (IF ipc # "none" THEN delivered + 1 ELSE delivered)
    /\ toggle' = [toggle EXCEPT !.callback = ipc # "none"]
    /\ ppc' = "returned"
    /\ UNCHANGED <<devices, rediscovered, cmds, responses, perror, managerVars,
                   pollVars>>

\* transferPlaybackToDevice(deviceId) up to the PUT
TransferPlaybackToDevice ==
    /\ ppc = "idle"
    /\ IF ~hasTokens
       THEN /\ Throw("No authentication tokens")
            /\ cmds' = cmds
       ELSE \E target \in DeviceIds :
               /\ cmds' = <<TransferPlayCmd(target)>>
               /\ Goto("transferPut")
    /\ UNCHANGED <<toggle, devices, rediscovered, responses, delivered, managerVars>>

TransferPutResponse ==
    /\ ppc = "transferPut"
    /\ \E status \in PlayStatuses :
          /\ responses' = Append(responses, status)
          /\ IF ~ResponseOk(status) /\ status # 204
             THEN Throw("Failed to transfer playback")
             ELSE IF mode = "sdk" THEN Goto("transferDevices")
             ELSE /\ ppc' = "returned"
                  /\ perror' = perror
                  /\ UNCHANGED pollVars
    /\ UNCHANGED <<toggle, devices, rediscovered, cmds, delivered, managerVars>>

\* in sdk mode getAvailableDevices answers; the target becomes the
\* manager's device id when the list names it 'Music League Helper'
TransferDevicesResponse ==
    /\ ppc = "transferDevices"
    /\ \/ /\ Throw("Failed to fetch devices")
          /\ deviceId' = deviceId
       \/ \E devs \in DeviceLists :
             /\ deviceId' = IF FindOurDeviceId(devs) = cmds[1].device
                            THEN cmds[1].device ELSE deviceId
             /\ ppc' = "returned"
             /\ perror' = perror
             /\ UNCHANGED pollVars
    /\ UNCHANGED <<toggle, devices, rediscovered, cmds, responses, delivered, mode, player,
                   ipc, hasTokens, hasLocalPlayback>>

\* the caller has the result
PlaySettle ==
    /\ ppc \in {"returned", "failed"}
    /\ ppc' = "idle"
    /\ devices' = <<>>
    /\ rediscovered' = NotRediscovered
    /\ cmds' = <<>>
    /\ responses' = <<>>
    /\ perror' = ""
    /\ delivered' = 0
    /\ toggle' = NoToggle
    /\ UNCHANGED <<managerVars, pollVars>>

PlayerQuiet ==
    /\ mode = "none"
    /\ deviceId = NoDevice
    /\ player = FALSE
    /\ ipc = "none"
    /\ hasTokens = TRUE
    /\ hasLocalPlayback = FALSE
    /\ ppc = "idle"
    /\ devices = <<>>
    /\ rediscovered = NotRediscovered
    /\ cmds = <<>>
    /\ responses = <<>>
    /\ perror = ""
    /\ pollingInterval = 0
    /\ burstTimers = 0
    /\ delivered = 0
    /\ toggle = NoToggle

PlayerInit ==
    /\ hasTokens \in BOOLEAN
    /\ mode = "none"
    /\ deviceId = NoDevice
    /\ player = FALSE
    /\ ipc = "none"
    /\ hasLocalPlayback = FALSE
    /\ ppc = "idle"
    /\ devices = <<>>
    /\ rediscovered = NotRediscovered
    /\ cmds = <<>>
    /\ responses = <<>>
    /\ perror = ""
    /\ pollingInterval = 0
    /\ burstTimers = 0
    /\ delivered = 0
    /\ toggle = NoToggle

\* C11: whenever hasLocalPlayback is true the background poll is stopped,
\* whatever the interleaving of player_state_changed events, playTrack calls
\* and the timers of startFastPolling.
C11_NoPollingDuringLocalPlayback ==
    hasLocalPlayback => pollingInterval = 0

\* C12: no step of a playTrack, togglePlay or transferPlaybackToDevice call
\* that ends in a throw changes the polling loop: the only step of a call
\* that touches the loop is the final poll of playTrack, which never throws,
\* so a loop that was active when a failing call began is active, with the
\* same interval, as far as that call goes.
C12_FailedCallLeavesPolling ==
    /\ [][(ppc' # ppc /\ ppc # "poll") =>
              (pollingInterval' = pollingInterval /\ burstTimers' = burstTimers)]_playerVars
    /\ [][ppc = "poll" => ppc' \in {"poll", "returned"}]_playerVars

\* C12 witness: a togglePlay call has failed while the loop the caller of
\* initialize started is running
C12_Witness ==
    /\ ppc = "failed"
    /\ perror = "Failed to toggle playback"
    /\ pollingInterval = 3000

\* C13: initialize ends with mode 'sdk' or 'connect', and it has ended by
\* the time the 5 second timeout has fired: it never goes on waiting for the
\* local player after that.
C13_InitializeEndsByTimeout ==
    /\ ipc \in {"done", "started"} => mode \in {"sdk", "connect"}
    /\ ipc # "waiting"

\* C28 as first stated: a togglePlay call that found live local playback in
\* sdk mode delegates and sends nothing; any other call either fails with
\* 'No active playback' having sent no command, or returns having sent the
\* one complementary command and delivered one polled state.
C28_Original ==
    (toggle.called /\ ppc \in {"returned", "failed"}) =>
        IF toggle.local
        THEN toggle.delegated /\ toggle.queries = 0 /\ cmds = <<>>
        ELSE \/ /\ ppc = "failed"
                /\ perror = "No active playback"
                /\ toggle.state = "absent"
                /\ cmds = <<>>
             \/ /\ ppc = "returned"
                /\ toggle.state \in {"paused", "playing"}
                /\ cmds = <<[kind |-> IF toggle.state = "paused" THEN "resume"
                                      ELSE "pause",
                             device |-> NoDevice]>>
                /\ delivered = (IF toggle.callback THEN 1 ELSE 0)

\* C28: with a stored credential, a togglePlay call that found live local
\* playback in sdk mode delegates to the local player and sends no state
\* query and no command; any other call asks for the remote state and, when
\* there is none, fails with 'No active playback' having sent no command;
\* otherwise it sends the one complementary command and, when that is
\* accepted, polls once more and delivers that one state to the callback;
\* when it is rejected the call fails with 'Failed to toggle playback' and
\* delivers nothing.  Without a credential it fails at once.
C28_TogglePlay ==
    (toggle.called /\ ppc \in {"returned", "failed"}) =>
        IF ~hasTokens
        THEN /\ ppc = "failed" /\ perror = "No authentication tokens"
             /\ ~toggle.delegated /\ toggle.queries = 0 /\ cmds = <<>>
        ELSE IF toggle.local
        THEN /\ ppc = "returned"
             /\ toggle.delegated /\ toggle.queries = 0 /\ cmds = <<>>
             /\ delivered = 0
        ELSE /\ ~toggle.delegated
             /\ IF toggle.state = "absent"
                THEN /\ ppc = "failed" /\ perror = "No active playback"
                     /\ cmds = <<>> /\ toggle.queries = 1
                ELSE /\ toggle.state \in {"paused", "playing"}
                     /\ cmds = <<[kind |-> IF toggle.state = "paused" THEN "resume"
                                           ELSE "pause",
                                  device |-> NoDevice]>>
                     /\ IF ppc = "returned"
                        THEN /\ toggle.queries = 2
                             /\ delivered = (IF toggle.callback THEN 1 ELSE 0)
                        ELSE /\ perror = "Failed to toggle playback"
                             /\ toggle.queries = 1
                             /\ delivered = 0

\* C28 witness: in sdk mode without local playback a paused remote state
\* was resumed and the polled state delivered
C28_Witness ==
    /\ toggle.called /\ ~toggle.local
    /\ mode = "sdk"
    /\ ppc = "returned"
    /\ toggle.state = "paused"
    /\ cmds = <<[kind |-> "resume", device |-> NoDevice]>>
    /\ delivered = 1

\* C36: in every reachable state of the manager, whatever the interleaving
\* of initialize, the player's events, transferPlaybackToDevice and
\* disconnect, mode 'sdk' comes with a local device id and a player object.
C36_SdkModeHasPlayer ==
    mode = "sdk" => (deviceId # NoDevice /\ player)

\* C37: disconnect returns with no polling loop, and while the component
\* stays unmounted and no call is made or in progress, no step starts a loop
\* or hands a state to the callback.
C37_NoPollingAfterDisconnect ==
    /\ [][(ipc # "disconnected" /\ ipc' = "disconnected") =>
              pollingInterval' = 0]_playerVars
    /\ [][(/\ ipc = "disconnected" /\ ipc' = "disconnected"
           /\ ppc = "idle" /\ ppc' = "idle"
           /\ pollingInterval = 0) =>
              (pollingInterval' = 0 /\ delivered' = delivered)]_playerVars

\* C38: when a second playTrack succeeded while the timer of the first
\* call's burst was pending, the firing of that first timer leaves the fast
\* interval in effect: the second burst runs until its own timer fires.
C38_SecondBurstRunsFull ==
    [][(burstTimers' < burstTimers /\ burstTimers' > 0 /\ pollingInterval = 2000) =>
           pollingInterval' = 2000]_playerVars

\* C32: a playTrack call that runs in connect mode and saw no active
\* device sends exactly one play command, without a device id; when the
\* answer is 404 the call fails with the no-active-device error, and a call
\* that fails starts no polling burst.
C32_ConnectPlayWithoutDevice ==
    /\ [](/\ mode = "connect" /\ cmds # <<>> /\ cmds[1].kind = "play"
          /\ ~(\E i \in DOMAIN devices : devices[i].is_active)
          => /\ cmds = <<[kind |-> "play", device |-> NoDevice]>>
             /\ ppc \in {"playConnect", "poll", "returned", "failed"}
             /\ ~rediscovered.done
             /\ (responses = <<404>>) =>
                    /\ ppc = "failed"
                    /\ perror = "No active device found. Please open Spotify on one of your devices.")
    /\ [][(ppc = "playConnect" /\ ppc' = "failed") =>
              (burstTimers' = burstTimers /\ pollingInterval' = pollingInterval
               /\ delivered' = delivered)]_playerVars

\* C32 witness: in connect mode, with one inactive device listed, the one
\* play command got 404 and the call failed while the loop runs as before
C32_Witness ==
    /\ mode = "connect"
    /\ Len(devices) = 1 /\ ~devices[1].is_active
    /\ cmds = <<[kind |-> "play", device |-> NoDevice]>>
    /\ responses = <<404>>
    /\ ppc = "failed"
    /\ perror = "No active device found. Please open Spotify on one of your devices."
    /\ pollingInterval = 3000
    /\ burstTimers = 0

\* C31: the last step of a playTrack call whose play command succeeded
\* hands one polled state to the registered callback, sets the loop to the
\* fast interval (2000 ms) and leaves one timer pending, and then the call
\* returns; a fast loop always has a timer pending; the firing of a timer
\* is no step of any call and sets the loop to the normal interval
\* (10000 ms); and a loop at the fast interval is always followed by a loop
\* at the normal interval.
C31_BurstThenNormal ==
    /\ [][(ppc = "poll" /\ ppc' # "poll") =>
              /\ ppc' = "returned"
              /\ delivered' = delivered + (IF ipc # "none" THEN 1 ELSE 0)
              /\ pollingInterval' = 2000
              /\ burstTimers' = burstTimers + 1]_playerVars
    /\ [](pollingInterval = 2000 => burstTimers > 0)
    /\ [][burstTimers' < burstTimers =>
              (pollingInterval' = 10000 /\ UNCHANGED callVars)]_playerVars
    /\ (pollingInterval = 2000 ~> pollingInterval = 10000)

\* C31 witness: a call has returned having delivered one state, the burst
\* has ended by its timer and the loop runs at the normal interval
C31_Witness ==
    /\ ppc = "returned"
    /\ cmds # <<>> /\ cmds[1].kind = "play"
    /\ delivered = 1
    /\ burstTimers = 0
    /\ pollingInterval = 10000

\* C9: whenever the device list playTrack fetched holds a device marked
\* active, the call sends exactly one play command, with no device_id, in
\* whatever mode the manager is; it sends no play or transfer command that
\* names a device.
C9_ActiveDevicePlay ==
    (ppc # "idle" /\ \E i \in DOMAIN devices : devices[i].is_active) =>
        /\ ppc \in {"playActive", "poll", "returned", "failed"}
        /\ cmds = <<[kind |-> "play", device |-> NoDevice]>>
        /\ \A i \in DOMAIN cmds : cmds[i].device = NoDevice
        /\ rediscovered.done = FALSE
        /\ ppc = "failed" => perror = "Failed to start playback on active device"

\* C9 witness: in sdk mode with a local device id, a call that saw another
\* device active has returned
C9_Witness ==
    /\ mode = "sdk"
    /\ deviceId = SdkDeviceId
    /\ ppc = "returned"
    /\ \E i \in DOMAIN devices : devices[i].is_active /\ devices[i].id # deviceId
    /\ cmds = <<[kind |-> "play", device |-> NoDevice]>>

NumReaders == 2
NumLegacyPlaylists == 2

Readers == 1 .. NumReaders
LegacyKey(name, id) == [name |-> name, id |-> id]
\* the keys localStorage may hold: the three legacy names and another one
StorageKeys ==
    {LegacyKey("cached_library", 0), LegacyKey("cached_playlists", 0),
     LegacyKey("spotify_profile", 0)}
        \cup {LegacyKey("cached_playlist_", n) : n \in 1 .. NumLegacyPlaylists}
\* localStorage.key(i) enumerates the keys in some order
Orders(S) ==
    {f \in [1 .. Cardinality(S) -> S] :
        \A i, j \in 1 .. Cardinality(S) : i # j => f[i] # f[j]}
Storages == UNION {Orders(S) : S \in SUBSET StorageKeys}

VARIABLES
    localStorage,   \* the keys of the legacy store, in key(i) order
    legacyAtStart,  \* the legacy store when the process started
    idb,            \* records of the partitions LIBRARY, PLAYLISTS, PLAYLIST_TRACKS
    mpc,            \* position of each reader in ensureMigration
    loopIndex,      \* `i` of the loop of line 218, per call
    started,        \* calls of migrateFromLocalStorage so far
    writeFailed,    \* an idbSet of the migration has failed
    first,          \* the reader whose ensureMigration set the flag (0: none)
    firstDone       \* that ensureMigration has returned

migVars == <<localStorage, legacyAtStart, idb, mpc, loopIndex, started,
             writeFailed, first, firstDone>>
readVars == <<coll, remote, epoch, store, now, pc, op, existingTrackIds, tracks,
              offset, requests, progress, result, warned, cacheAtCall,
              epochAtCall, prev>>

Keys(storage) == {storage[i] : i \in DOMAIN storage}
\* localStorage.removeItem(key): the keys after it move up
RemoveItem(storage, key) ==
    SelectSeq(storage, LAMBDA k : k # key)
\* what idbSet(partition, key, JSON.parse(data)) stores: the legacy record
Migrated(partition, key, from) == [partition |-> partition, key |-> key, from |-> from]

IsLegacy(key) ==
    key.name \in {"cached_library", "cached_playlists", "cached_playlist_"}
\* the key within a partition: 'main', or a playlist id
MainKey == [main |-> TRUE, id |-> 0]
PlaylistKey(id) == [main |-> FALSE, id |-> id]
PartitionOf(key) ==
    IF key.name = "cached_library" THEN Migrated("LIBRARY", MainKey, key)
    ELSE IF key.name = "cached_playlists" THEN Migrated("PLAYLISTS", MainKey, key)
    ELSE Migrated("PLAYLIST_TRACKS", PlaylistKey(key.id), key)

AlreadyChecked_never(flag) == FALSE
\* `if (migrationChecked) return;`
AlreadyChecked(flag) == flag

\* `localStorage.getItem('cached_library') || localStorage.getItem('cached_playlists')`
HasOldCache(storage) ==
    \/ LegacyKey("cached_library", 0) \in Keys(storage)
    \/ LegacyKey("cached_playlists", 0) \in Keys(storage)

\* `key?.startsWith('cached_playlist_')`
StartsWithPlaylistPrefix(key) == key.name = "cached_playlist_"

\* ensureMigration up to its first await
EnsureMigration(r) ==
    /\ mpc[r] = "idle"
    /\ IF AlreadyChecked(migrationChecked)
       THEN /\ mpc' = [mpc EXCEPT ![r] = "done"]
            /\ UNCHANGED <<migrationChecked, started, first>>
       ELSE /\ migrationChecked' = TRUE
            /\ first' = (IF first = 0 THEN r ELSE first)
            /\ IF HasOldCache(localStorage)
               THEN /\ started' = started + 1
                    /\ mpc' = [mpc EXCEPT ![r] = "library"]
               ELSE /\ started' = started
                    /\ mpc' = [mpc EXCEPT ![r] = "cleanup"]
    /\ UNCHANGED <<localStorage, legacyAtStart, idb, loopIndex, writeFailed,
                   firstDone, readVars>>

\* one `if (cached...) { await idbSet(...); removeItem(...) }` block; a
\* failed idbSet goes to the catch of line 233 and the migration is over
MigrateMain(r, at, key, next) ==
    /\ mpc[r] = at
    /\ IF key \in Keys(localStorage)
       THEN \/ /\ idb' = {e \in idb : e.partition # PartitionOf(key).partition}
                            \cup {PartitionOf(key)}
               /\ localStorage' = RemoveItem(localStorage, key)
               /\ mpc' = [mpc EXCEPT ![r] = next]
               /\ writeFailed' = writeFailed
            \/ /\ writeFailed' = TRUE
               /\ mpc' = [mpc EXCEPT ![r] = "cleanup"]
               /\ UNCHANGED <<idb, localStorage>>
       ELSE /\ mpc' = [mpc EXCEPT ![r] = next]
            /\ UNCHANGED <<idb, localStorage, writeFailed>>
    /\ loopIndex' = [loopIndex EXCEPT ![r] = 0]
    /\ UNCHANGED <<legacyAtStart, started, first, firstDone, migrationChecked,
                   readVars>>

MigrateLibrary(r) ==
    MigrateMain(r, "library", LegacyKey("cached_library", 0), "playlists")
MigratePlaylists(r) ==
    MigrateMain(r, "playlists", LegacyKey("cached_playlists", 0), "loop")

\* one turn of `for (let i = 0; i < localStorage.length; i++)`
MigrateLoop(r) ==
    /\ mpc[r] = "loop"
    /\ IF loopIndex[r] < Len(localStorage)
       THEN LET key == localStorage[loopIndex[r] + 1]
            IN  IF StartsWithPlaylistPrefix(key)
                THEN \/ /\ idb' = {e \in idb : ~(e.partition = "PLAYLIST_TRACKS"
                                                    /\ e.key = PlaylistKey(key.id))}
                                     \cup {PartitionOf(key)}
                        /\ localStorage' = RemoveItem(localStorage, key)
                        /\ loopIndex' = [loopIndex EXCEPT ![r] = @ + 1]
                        /\ UNCHANGED <<mpc, writeFailed>>
                     \/ /\ writeFailed' = TRUE
                        /\ mpc' = [mpc EXCEPT ![r] = "cleanup"]
                        /\ UNCHANGED <<idb, localStorage, loopIndex>>
                ELSE /\ loopIndex' = [loopIndex EXCEPT ![r] = @ + 1]
                     /\ UNCHANGED <<idb, localStorage, mpc, writeFailed>>
       ELSE /\ mpc' = [mpc EXCEPT ![r] = "cleanup"]
            /\ UNCHANGED <<idb, localStorage, loopIndex, writeFailed>>
    /\ UNCHANGED <<legacyAtStart, started, first, firstDone, migrationChecked,
                   readVars>>

\* `await cleanupArtistCache()` (it touches the artist partition only)
\* settles: ensureMigration returns, or, when the cursor request of
\* idbCleanupExpiredArtists fails, rejects and the read with it
CleanupDone(r) ==
    /\ mpc[r] = "cleanup"
    /\ \E cleaned \in BOOLEAN :
          mpc' = [mpc EXCEPT ![r] = IF cleaned THEN "done" ELSE "failed"]
    /\ firstDone' = (firstDone \/ first = r)
    /\ UNCHANGED <<localStorage, legacyAtStart, idb, loopIndex, started,
                   writeFailed, first, migrationChecked, readVars>>

\* the collection read goes on and ends; the reader may read again
ReadReturns(r) ==
    /\ mpc[r] \in {"done", "failed"}
    /\ mpc' = [mpc EXCEPT ![r] = "idle"]
    /\ UNCHANGED <<localStorage, legacyAtStart, idb, loopIndex, started,
                   writeFailed, first, firstDone, migrationChecked, readVars>>

MigrationQuiet ==
    /\ localStorage = <<>>
    /\ legacyAtStart = <<>>
    /\ idb = {}
    /\ mpc = [r \in Readers |-> "idle"]
    /\ loopIndex = [r \in Readers |-> 0]
    /\ started = 0
    /\ writeFailed = FALSE
    /\ first = 0
    /\ firstDone = FALSE

MigrationInit ==
    /\ localStorage \in Storages
    /\ legacyAtStart = localStorage
    /\ idb = {}
    /\ mpc = [r \in Readers |-> "idle"]
    /\ loopIndex = [r \in Readers |-> 0]
    /\ started = 0
    /\ writeFailed = FALSE
    /\ first = 0
    /\ firstDone = FALSE

\* C21: migrateFromLocalStorage is started at most once in a process,
\* however many reads call ensureMigration and however they interleave, and
\* no step taken while the legacy store holds no legacy record changes the
\* legacy store or the partitions.
C21_MigrationAtMostOnce ==
    /\ [](started <= 1)
    /\ [][(\A k \in Keys(localStorage) : ~IsLegacy(k)) =>
             (localStorage' = localStorage /\ idb' = idb)]_migVars

\* C21 witness: the migration ran once and every reader has been through
\* ensureMigration, one of them while the migration was still running
C21_Witness ==
    /\ started = 1
    /\ \E r \in Readers : mpc[r] = "loop"
    /\ \E r \in Readers : mpc[r] = "done"

\* C22: once the first read's ensureMigration has returned and no write
\* failed, every legacy record the process started with is in its partition
\* and none of the legacy keys is left in the legacy store.
C22_LegacyRecordsMoved ==
    (firstDone /\ ~writeFailed) =>
        \A k \in Keys(legacyAtStart) :
            IsLegacy(k) => (k \notin Keys(localStorage) /\ PartitionOf(k) \in idb)

\* C35: a collection read does not fail for a failure of the local stores:
\* with the remote service and the credential in order, no read ends in an
\* error.
C35_StorageFailureIsCacheMiss ==
    \A r \in Readers : mpc[r] # "failed"

\* C40: while the migration of the legacy records is running, no read has
\* got past ensureMigration to consult the partitions.
C40_ReadsWaitForMigration ==
    \A r, q \in Readers :
        mpc[q] \in {"library", "playlists", "loop"} => mpc[r] # "done"

(***************************************************************************)
(* The IndexedDB wrapper: idbGet, idbSet, idbDelete, idbGetAllKeys and     *)
(* idbClear on one object store.  Each is                                  *)
(*   try { const db = await getDB(); return new Promise(...) } catch ...   *)
(* so the catch sees a rejection of getDB only: the promise is returned    *)
(* without `await`, and its rejection goes to the caller.                   *)
(***************************************************************************)
MaxValue == 2

IdbKeys == {"main", "p1"}
IdbValues == 1 .. MaxValue
Absent == 0
\* where an operation fails: nowhere; indexedDB.open; db.transaction throws
\* in the executor (the store does not exist); the request's onerror, which
\* for a put includes QuotaExceededError
IdbFailures == {"none", "open", "store", "request", "quota"}

VARIABLES
    objectStore,    \* key -> value, Absent for no record
    lastCall,       \* the last operation and where it failed
    lastOutcome     \* how its promise settled

idbVars == <<objectStore, lastCall, lastOutcome>>

IdbCall(operation, key, value, fault) ==
    [op |-> operation, key |-> key, value |-> value, failure |-> fault]
Settled(kind, value, keys) == [kind |-> kind, value |-> value, keys |-> keys]
Resolved(kind) == Settled(kind, Absent, {})
Rejected == Settled("throws", Absent, {})

\* the fault is a rejection of `await getDB()`, inside the try block
CaughtByTry(fault) == fault = "open"

\* idbGet(store, key): `resolve(request.result || null)`, `return null` in
\* the catch
IdbGet ==
    \E key \in IdbKeys, fault \in IdbFailures \ {"quota"} :
       /\ lastCall' = IdbCall("get", key, Absent, fault)
       /\ lastOutcome' =
             IF fault = "none"
             THEN IF objectStore[key] = Absent THEN Resolved("null")
                  ELSE Settled("value", objectStore[key], {})
             ELSE IF CaughtByTry(fault) THEN Resolved("null")
             ELSE Rejected
       /\ objectStore' = objectStore

\* idbSet(store, key, value): the catch rethrows
IdbSet ==
    \E key \in IdbKeys, value \in IdbValues, fault \in IdbFailures :
       /\ lastCall' = IdbCall("put", key, value, fault)
       /\ lastOutcome' = IF fault = "none" THEN Resolved("void") ELSE Rejected
       /\ objectStore' = IF fault = "none"
                         THEN [objectStore EXCEPT ![key] = value]
                         ELSE objectStore

\* idbDelete(store, key): the catch only logs
IdbDelete ==
    \E key \in IdbKeys, fault \in IdbFailures \ {"quota"} :
       /\ lastCall' = IdbCall("delete", key, Absent, fault)
       /\ lastOutcome' =
             IF fault = "none" \/ CaughtByTry(fault) THEN Resolved("void")
             ELSE Rejected
       /\ objectStore' = IF fault = "none"
                         THEN [objectStore EXCEPT ![key] = Absent]
                         ELSE objectStore

\* idbGetAllKeys(store): `return []` in the catch
IdbGetAllKeys ==
    \E fault \in IdbFailures \ {"quota"} :
       /\ lastCall' = IdbCall("keys", "main", Absent, fault)
       /\ lastOutcome' =
             IF fault = "none"
             THEN Settled("keys", Absent, {k \in IdbKeys : objectStore[k] # Absent})
             ELSE IF CaughtByTry(fault) THEN Resolved("keys")
             ELSE Rejected
       /\ objectStore' = objectStore

\* idbClear(store): the catch only logs
IdbClear ==
    \E fault \in IdbFailures \ {"quota"} :
       /\ lastCall' = IdbCall("clear", "main", Absent, fault)
       /\ lastOutcome' =
             IF fault = "none" \/ CaughtByTry(fault) THEN Resolved("void")
             ELSE Rejected
       /\ objectStore' = IF fault = "none"
                         THEN [k \in IdbKeys |-> Absent]
                         ELSE objectStore

IdbQuiet ==
    /\ objectStore = [k \in IdbKeys |-> Absent]
    /\ lastCall = IdbCall("none", "main", Absent, "none")
    /\ lastOutcome = Resolved("none")

IdbInit ==
    /\ objectStore \in [IdbKeys -> {Absent} \cup IdbValues]
    /\ lastCall = IdbCall("none", "main", Absent, "none")
    /\ lastOutcome = Resolved("none")

\* C23: get, delete, list-keys and clear never reject: wherever they fail,
\* get resolves with null, list-keys with the empty list, delete and clear
\* normally; put rejects on every failure, and when it resolves the value is
\* in the store.
C23_OnlyPutPropagates ==
    /\ lastCall.op \in {"get", "delete", "keys", "clear"} =>
          lastOutcome.kind # "throws"
    /\ (lastCall.op = "get" /\ lastCall.failure # "none") =>
          lastOutcome = Resolved("null")
    /\ (lastCall.op = "keys" /\ lastCall.failure # "none") =>
          lastOutcome = Resolved("keys")
    /\ lastCall.op = "put" =>
          /\ lastCall.failure # "none" => lastOutcome.kind = "throws"
          /\ lastOutcome.kind = "void" => objectStore[lastCall.key] = lastCall.value

(***************************************************************************)
(* The minimized projection of a track: toMinimalTrack and                 *)
(* fromMinimalTrack.  A string is a sequence of characters; an artist id   *)
(* that is missing is the empty string.  These are the two functions with  *)
(* every field of the records; the synchronizer above uses them cut down   *)
(* to the id and the images.                                               *)
(***************************************************************************)
MaxNameLen == 2
MaxArtists == 2

Chars == {"a", ",", " "}
DELIMITER == <<",", " ">>
Strings(maxLen) == UNION {[1 .. n -> Chars] : n \in 0 .. maxLen}
ArtistIdStrings == {<<>>, <<"x">>}
Artist(name, id) == [name |-> name, id |-> id]
Artists == {Artist(n, i) : n \in Strings(MaxNameLen), i \in ArtistIdStrings}
ArtistLists == UNION {[1 .. n -> Artists] : n \in 0 .. MaxArtists}
ImageLists == {<<>>, <<"u1">>, <<"u1", "u2">>, <<"u2", "u1">>}
SpotifyTrack(id, artists, images) ==
    [id |-> id, name |-> "Song", artists |-> artists,
     album |-> [name |-> "Album", release_date |-> "2020-01-01", images |-> images],
     uri |-> "spotify:track:1", duration_ms |-> 1000]
SpotifyTracks ==
    {SpotifyTrack(id, artists, images) :
        id \in {"t1", "t2"}, artists \in ArtistLists, images \in ImageLists}
NoTrack == SpotifyTrack("", <<>>, <<>>)
NoCachedTrack ==
    [id |-> "", name |-> "", artists |-> <<>>, artistIds |-> <<>>,
     albumName |-> "", releaseDate |-> "", imageUrl |-> "", uri |-> "",
     durationMs |-> 0]

\* Array.prototype.join(', ')
RECURSIVE Join(_)
Join(strings) ==
    IF strings = <<>> THEN <<>>
    ELSE IF Len(strings) = 1 THEN strings[1]
    ELSE strings[1] \o DELIMITER \o Join(Tail(strings))

\* String.prototype.split(', '): cut at each occurrence, left to right
RECURSIVE Split(_)
Split(string) ==
    LET at == {i \in 1 .. Len(string) - 1 : SubSeq(string, i, i + 1) = DELIMITER}
    IN  IF at = {} THEN <<string>>
        ELSE LET i == CHOOSE j \in at : \A k \in at : j <= k
             IN  <<SubSeq(string, 1, i - 1)>> \o Split(SubSeq(string, i + 2, Len(string)))

toMinimalTrackFields(t) ==
    [id |-> t.id,
     name |-> t.name,
     artists |-> Join([i \in DOMAIN t.artists |-> t.artists[i].name]),
     artistIds |-> Join([i \in DOMAIN t.artists |-> t.artists[i].id]),
     albumName |-> t.album.name,
     releaseDate |-> t.album.release_date,
     imageUrl |-> IF t.album.images = <<>> THEN "" ELSE t.album.images[1],
     uri |-> t.uri,
     durationMs |-> t.duration_ms]

fromMinimalTrackFields(cached) ==
    LET artistNames == Split(cached.artists)
        artistIds == IF cached.artistIds # <<>> THEN Split(cached.artistIds) ELSE <<>>
    IN  [id |-> cached.id,
         name |-> cached.name,
         artists |-> [index \in DOMAIN artistNames |->
                         Artist(artistNames[index],
                                IF index \in DOMAIN artistIds THEN artistIds[index]
                                ELSE <<>>)],
         album |-> [name |-> cached.albumName,
                    release_date |-> cached.releaseDate,
                    images |-> IF cached.imageUrl # "" THEN <<cached.imageUrl>>
                               ELSE <<>>],
         uri |-> cached.uri,
         duration_ms |-> cached.durationMs]

VARIABLES
    track,      \* a track as the remote service sent it
    cached,     \* its record in the cache
    loaded,     \* the track read back from the cache
    tpc         \* "fetched", "cached" or "loaded"

trackVars == <<track, cached, loaded, tpc>>

\* the track is minimized for the cache (lines 218, 415)
CacheTrack ==
    /\ tpc = "fetched"
    /\ cached' = toMinimalTrackFields(track)
    /\ tpc' = "cached"
    /\ UNCHANGED <<track, loaded>>

\* a later read expands the cached record (lines 206, 402)
LoadTrack ==
    /\ tpc = "cached"
    /\ loaded' = fromMinimalTrackFields(cached)
    /\ tpc' = "loaded"
    /\ UNCHANGED <<track, cached>>

TrackQuiet ==
    /\ track = NoTrack
    /\ cached = NoCachedTrack
    /\ loaded = NoTrack
    /\ tpc = "fetched"

TrackInit ==
    /\ track \in SpotifyTracks
    /\ cached = NoCachedTrack
    /\ loaded = NoTrack
    /\ tpc = "fetched"

\* C24: for every track, minimizing the track read back from the cache
\* gives the cached record again.
C24_MinimizeIdempotent ==
    tpc = "loaded" => toMinimalTrackFields(loaded) = cached

\* C25: the track read back from the cache has the id, name, uri, duration,
\* album name and release date of the original, as many artists, each with
\* the name and the id of the original at its position, and at most one
\* image.
C25_RoundTripPreserves ==
    tpc = "loaded" =>
        /\ loaded.id = track.id
        /\ loaded.name = track.name
        /\ loaded.uri = track.uri
        /\ loaded.duration_ms = track.duration_ms
        /\ loaded.album.name = track.album.name
        /\ loaded.album.release_date = track.album.release_date
        /\ Len(loaded.artists) = Len(track.artists)
        /\ \A i \in DOMAIN track.artists :
              i \in DOMAIN loaded.artists => loaded.artists[i] = track.artists[i]
        /\ Len(loaded.album.images) <= 1

(***************************************************************************)
(* batchFetchArtistFollowers: the artists are 1 .. n, artist a has         *)
(* Followers(a) followers.                                                 *)
(***************************************************************************)
MaxArtistIds == 11

BATCH_SIZE == 10
Followers(a) == a - 1

VARIABLES
    artistIds,      \* the argument: a sequence of distinct ids
    bpc,            \* "idle", "batch" (awaiting Promise.all), "loop", "returned"
    batchStart,     \* `i` of the loop
    inFlight,       \* lookups started and not settled
    batchResults,   \* the settled lookups of the batch: id -> followers
    results,        \* the map so far: a set of <<id, followers>>
    completed,
    batchProgress,  \* the calls onProgress got
    failed,         \* ids whose lookup threw
    dispatched      \* ids whose lookup has been started, batch by batch

batchVars == <<artistIds, bpc, batchStart, inFlight, batchResults, results,
               completed, batchProgress, failed, dispatched>>

Batch_rest(ids, i) == {ids[k] : k \in i + 1 .. Len(ids)}
\* `artistIds.slice(i, i + batchSize)`
Batch(ids, i) == {ids[k] : k \in i + 1 .. Min(i + BATCH_SIZE, Len(ids))}

ErrorResult_zero(artistId) == 0
\* the catch of line 542: `followers: -1`
ErrorResult(artistId) == -1

\* the call, and every later turn of the loop: the lookups of the batch all
\* start, or the loop is over and the map is returned
Dispatch ==
    /\ bpc \in {"idle", "loop"}
    /\ IF batchStart < Len(artistIds)
       THEN /\ inFlight' = Batch(artistIds, batchStart)
            /\ dispatched' = Append(dispatched, Batch(artistIds, batchStart))
            /\ bpc' = "batch"
       ELSE /\ bpc' = "returned"
            /\ UNCHANGED <<inFlight, dispatched>>
    /\ UNCHANGED <<artistIds, batchStart, batchResults, results, completed,
                   batchProgress, failed>>

\* getArtistFollowers(artistId) resolves
LookupOk ==
    /\ bpc = "batch"
    /\ \E a \in inFlight :
          /\ inFlight' = inFlight \ {a}
          /\ batchResults' = batchResults \cup {<<a, Followers(a)>>}
    /\ UNCHANGED <<artistIds, bpc, batchStart, results, completed, batchProgress,
                   failed, dispatched>>

\* getArtistFollowers(artistId) rejects and the catch answers for it
LookupFail ==
    /\ bpc = "batch"
    /\ \E a \in inFlight :
          /\ inFlight' = inFlight \ {a}
          /\ batchResults' = batchResults \cup {<<a, ErrorResult(a)>>}
          /\ failed' = failed \cup {a}
    /\ UNCHANGED <<artistIds, bpc, batchStart, results, completed, batchProgress,
                   dispatched>>

\* Promise.all resolved: the results go into the map and the progress is
\* reported
BatchSettled ==
    /\ bpc = "batch"
    /\ inFlight = {}
    /\ results' = {e \in results : \A f \in batchResults : f[1] # e[1] \/ f[2] < 0}
                     \cup {f \in batchResults : f[2] >= 0}
    /\ completed' = completed + Cardinality(Batch(artistIds, batchStart))
    /\ batchProgress' = Append(batchProgress, <<completed', Len(artistIds)>>)
    /\ batchStart' = batchStart + BATCH_SIZE
    /\ batchResults' = {}
    /\ bpc' = "loop"
    /\ UNCHANGED <<artistIds, inFlight, failed, dispatched>>

BatchQuiet ==
    /\ artistIds = <<>>
    /\ bpc = "idle"
    /\ batchStart = 0
    /\ inFlight = {}
    /\ batchResults = {}
    /\ results = {}
    /\ completed = 0
    /\ batchProgress = <<>>
    /\ failed = {}
    /\ dispatched = <<>>

BatchInit ==
    /\ artistIds \in {[k \in 1 .. n |-> k] : n \in 0 .. MaxArtistIds}
    /\ bpc = "idle"
    /\ batchStart = 0
    /\ inFlight = {}
    /\ batchResults = {}
    /\ results = {}
    /\ completed = 0
    /\ batchProgress = <<>>
    /\ failed = {}
    /\ dispatched = <<>>

\* C26: a lookup that fails ends neither its batch nor the call: when the
\* call has returned every id was looked up, the map holds exactly the ids
\* whose lookup succeeded, each with its follower count, and the last
\* progress report is (total, total).
C26_FailedLookupsAreSkipped ==
    bpc = "returned" =>
        /\ UNION {dispatched[k] : k \in DOMAIN dispatched}
              = {artistIds[k] : k \in DOMAIN artistIds}
        /\ results = {<<artistIds[k], Followers(artistIds[k])>> :
                         k \in {j \in DOMAIN artistIds : artistIds[j] \notin failed}}
        /\ artistIds # <<>> =>
              /\ batchProgress # <<>>
              /\ batchProgress[Len(batchProgress)] = <<Len(artistIds), Len(artistIds)>>

\* C26 witness: a call over two batches has returned with a failed lookup
\* in the first batch and a successful one in the second
C26_Witness ==
    /\ bpc = "returned"
    /\ Len(dispatched) = 2
    /\ \E a \in dispatched[1] : a \in failed
    /\ \E a \in dispatched[2] : <<a, Followers(a)>> \in results

\* C27: at most 10 lookups are in flight, they all belong to the batch
\* dispatched last, the batches are consecutive slices of at most 10 ids,
\* and while one is in flight every lookup of the earlier batches has
\* settled.
C27_BatchesOfTen ==
    /\ Cardinality(inFlight) <= 10
    /\ \A k \in DOMAIN dispatched :
          /\ Cardinality(dispatched[k]) <= 10
          /\ dispatched[k] = {artistIds[j] :
                                 j \in {m \in DOMAIN artistIds :
                                           m > 10 * (k - 1) /\ m <= 10 * k}}
    /\ inFlight # {} => inFlight \subseteq dispatched[Len(dispatched)]

\* C27 witness: the second batch is in flight
C27_Witness ==
    /\ Len(dispatched) = 2
    /\ inFlight # {}
    /\ Cardinality(dispatched[1]) = 10

(***************************************************************************)
(* getArtistFollowers: one entry of the ARTIST_FOLLOWERS partition, read    *)
(* with idbGet and written with idbSet, and the remote artist lookup.      *)
(***************************************************************************)
MaxFollowers == 1
MaxArtistTicks == 2

\* `7 * 24 * 60 * 60 * 1000`
ARTIST_CACHE_TTL == 7 * DAY_MS

ArtistEntry(followers, expires_at) ==
    [present |-> TRUE, followers |-> followers, expires_at |-> expires_at]
NoArtistEntry == [present |-> FALSE, followers |-> 0, expires_at |-> 0]

VARIABLES
    artistEntry,   \* the stored entry of the artist
    artistNow,     \* Date.now()
    apc,           \* position of the call
    seen,          \* what idbGet resolved with (NoArtistEntry: null)
    lookups,       \* remote requests the call has made
    fetched,       \* the count the remote lookup returned
    answer,        \* the count the call returned
    storeFailed    \* the idbSet of the call rejected

artistVars ==
    <<artistEntry, artistNow, apc, seen, lookups, fetched, answer, storeFailed>>

\* `cached && cached.expires_at > Date.now()`
IsUnexpired(entry, at) == entry.present /\ entry.expires_at > at

\* getArtistFollowers(artistId) up to its idbGet
GetArtistFollowers ==
    /\ apc = "idle"
    /\ apc' = "read"
    /\ UNCHANGED <<artistEntry, artistNow, seen, lookups, fetched, answer, storeFailed>>

\* idbGet settles: with the entry, with null (no entry, or the database
\* could not be opened), or with a rejection, which ends the call; an
\* unexpired entry is returned, anything else sends the remote request
ArtistReadSettles ==
    /\ apc = "read"
    /\ \E fault \in {"none", "open", "request"} :
          IF fault # "none" /\ ~CaughtByTry(fault)
          THEN /\ apc' = "failed"
               /\ UNCHANGED <<seen, lookups, answer>>
          ELSE LET entry == IF fault = "none" THEN artistEntry ELSE NoArtistEntry
               IN  /\ seen' = entry
                   /\ IF IsUnexpired(entry, artistNow)
                      THEN /\ answer' = entry.followers
                           /\ apc' = "returned"
                           /\ lookups' = lookups
                      ELSE /\ apc' = "lookup"
                           /\ lookups' = lookups + 1
                           /\ answer' = answer
    /\ UNCHANGED <<artistEntry, artistNow, fetched, storeFailed>>

\* fetchFromSpotify answers with the artist, or throws
ArtistLookupSettles ==
    /\ apc = "lookup"
    /\ \/ /\ apc' = "failed"
          /\ fetched' = fetched
       \/ \E total \in 0 .. MaxFollowers :
             /\ fetched' = total
             /\ apc' = "store"
    /\ UNCHANGED <<artistEntry, artistNow, seen, lookups, answer, storeFailed>>

\* idbSet settles; a rejection is caught and warned about
ArtistStoreSettles ==
    /\ apc = "store"
    /\ \/ /\ artistEntry' = ArtistEntry(fetched, artistNow + ARTIST_CACHE_TTL)
          /\ storeFailed' = FALSE
       \/ /\ artistEntry' = artistEntry
          /\ storeFailed' = TRUE
    /\ answer' = fetched
    /\ apc' = "returned"
    /\ UNCHANGED <<artistNow, seen, lookups, fetched>>

\* the caller has the count or the error
ArtistSettle ==
    /\ apc \in {"returned", "failed"}
    /\ apc' = "idle"
    /\ seen' = NoArtistEntry
    /\ lookups' = 0
    /\ fetched' = 0
    /\ answer' = 0
    /\ storeFailed' = FALSE
    /\ UNCHANGED <<artistEntry, artistNow>>

\* the instants looked at: the first ticks, and those around one TTL later
ArtistTimes ==
    {base + k : base \in {0, ARTIST_CACHE_TTL}, k \in 0 .. MaxArtistTicks}

\* time passes, between calls and between the awaits of a call
ArtistTick ==
    /\ \E later \in ArtistTimes :
          /\ later > artistNow
          /\ artistNow' = later
    /\ UNCHANGED <<artistEntry, apc, seen, lookups, fetched, answer, storeFailed>>

ArtistQuiet ==
    /\ artistEntry = NoArtistEntry
    /\ artistNow = 0
    /\ apc = "idle"
    /\ seen = NoArtistEntry
    /\ lookups = 0
    /\ fetched = 0
    /\ answer = 0
    /\ storeFailed = FALSE

\* the partition holds no entry of the artist, or one an earlier session left
ArtistInit ==
    /\ artistEntry \in {NoArtistEntry}
           \cup {ArtistEntry(f, e) : f \in 0 .. MaxFollowers,
                                     e \in {1, ARTIST_CACHE_TTL}}
    /\ artistNow = 0
    /\ apc = "idle"
    /\ seen = NoArtistEntry
    /\ lookups = 0
    /\ fetched = 0
    /\ answer = 0
    /\ storeFailed = FALSE

\* C33: the read of the entry ends in one of two ways, never in a failure
\* of the call: the entry exists with expires_at > now and its count is
\* returned without a remote request, or one remote request is made; when
\* that request answers, the call returns the fetched count, and the entry
\* is then the fetched count with expires_at = now + 7 days, or, when the
\* store failed, what it was.
C33_CachedOrOneLookup ==
    /\ [][(apc = "read" /\ apc' # "read") =>
              \/ /\ apc' = "returned"
                 /\ seen'.present /\ seen'.expires_at > artistNow
                 /\ answer' = seen'.followers
                 /\ lookups' = 0
              \/ /\ apc' = "lookup"
                 /\ ~(seen'.present /\ seen'.expires_at > artistNow)
                 /\ lookups' = 1]_artistVars
    /\ [][(apc = "store" /\ apc' # "store") =>
              /\ apc' = "returned"
              /\ answer' = fetched
              /\ lookups' = 1
              /\ \/ artistEntry' = ArtistEntry(fetched, artistNow + ARTIST_CACHE_TTL)
                 \/ artistEntry' = artistEntry /\ storeFailed']_artistVars
    /\ [][artistEntry' # artistEntry => apc = "store"]_artistVars

(***************************************************************************)
(* Two fetches of one collection in progress at once (a resync started     *)
(* while a read is still paging): each call has its own `tracks` and        *)
(* `offset`; the remote collection, the clock and the cache record are the *)
(* synchronizer's.                                                         *)
(***************************************************************************)
\* the two calls in progress
Fetchers == {1, 2}

VARIABLES
    fpc,         \* position of each fetch
    facc,        \* its `tracks`
    foff,        \* its `offset`
    freq,        \* page requests it has made
    lastWriter   \* the fetch whose idbSet came last (0: none)

raceVars == <<fpc, facc, foff, freq, lastWriter>>
callerVars == <<migrationChecked, pc, op, existingTrackIds, tracks, offset, requests,
                progress, result, warned, cacheAtCall, epochAtCall, prev>>

CacheData_firstPage(c, ts, t) ==
    CacheRecord(CACHE_VERSION, TRUE,
                MinimalTracks(SubSeq(ts, 1, Min(Len(ts), limit(c)))), t)
\* `{ version: CACHE_VERSION, tracks: tracks.map(toMinimalTrack), lastSynced: Date.now() }`
CacheData(c, ts, t) ==
    CacheRecord(CACHE_VERSION, TRUE, MinimalTracks(ts), t)

\* fetchLibraryTracks / fetchPlaylistTracks up to the first page request
RaceCall(f) ==
    /\ fpc[f] = "idle"
    /\ \E forceRefresh \in BOOLEAN :
          LET decision == CacheDecision(coll, store, forceRefresh, now)
          IN  /\ fpc' = [fpc EXCEPT ![f] = IF decision = "hit" THEN "done" ELSE "page"]
              /\ store' = IF decision = "stale" THEN NoRecord ELSE store
    /\ UNCHANGED <<facc, foff, freq, lastWriter, coll, remote, epoch, now, callerVars>>

\* one turn of the page loop of fetch f
RacePage(f) ==
    /\ fpc[f] = "page"
    /\ freq[f] < MaxRequests
    /\ LET newTracks == ValidTracks(coll, Page(remote, foff[f], limit(coll)))
           acc == facc[f] \o newTracks
       IN  /\ facc' = [facc EXCEPT ![f] = acc]
           /\ freq' = [freq EXCEPT ![f] = @ + 1]
           /\ IF LoopDone(Len(acc), Len(remote))
              THEN fpc' = [fpc EXCEPT ![f] = "persist"] /\ foff' = foff
              ELSE /\ fpc' = fpc
                   /\ foff' = [foff EXCEPT ![f] = NextOffset(@, limit(coll))]
    /\ UNCHANGED <<lastWriter, coll, remote, epoch, store, now, callerVars>>

\* the idbSet of fetch f settles, and the fetch returns
RacePersist(f) ==
    /\ fpc[f] = "persist"
    /\ \/ /\ store' = CacheData(coll, facc[f], now)
          /\ lastWriter' = f
       \/ UNCHANGED <<store, lastWriter>>
    /\ fpc' = [fpc EXCEPT ![f] = "done"]
    /\ UNCHANGED <<facc, foff, freq, coll, remote, epoch, now, callerVars>>

RaceQuiet ==
    /\ fpc = [f \in Fetchers |-> "idle"]
    /\ facc = [f \in Fetchers |-> <<>>]
    /\ foff = [f \in Fetchers |-> 0]
    /\ freq = [f \in Fetchers |-> 0]
    /\ lastWriter = 0

vars ==
    <<syncVars, tokenVars, retryVars, playerVars, migVars, idbVars, trackVars,
      batchVars, artistVars, raceVars>>
notSyncVars ==
    <<tokenVars, retryVars, playerVars, migVars, idbVars, trackVars, batchVars,
      artistVars, raceVars>>
notTokenVars ==
    <<syncVars, retryVars, playerVars, migVars, idbVars, trackVars, batchVars,
      artistVars, raceVars>>
notRetryVars ==
    <<syncVars, tokenVars, playerVars, migVars, idbVars, trackVars, batchVars,
      artistVars, raceVars>>
notPlayerVars ==
    <<syncVars, tokenVars, retryVars, migVars, idbVars, trackVars, batchVars,
      artistVars, raceVars>>
notMigVars ==
    <<tokenVars, retryVars, playerVars, idbVars, trackVars, batchVars,
      artistVars, raceVars>>
notIdbVars ==
    <<syncVars, tokenVars, retryVars, playerVars, migVars, trackVars, batchVars,
      artistVars, raceVars>>
notTrackVars ==
    <<syncVars, tokenVars, retryVars, playerVars, migVars, idbVars, batchVars,
      artistVars, raceVars>>
notRaceVars ==
    <<tokenVars, retryVars, playerVars, migVars, idbVars, trackVars, batchVars,
      artistVars>>
notArtistVars ==
    <<syncVars, tokenVars, retryVars, playerVars, migVars, idbVars, trackVars,
      batchVars, raceVars>>
notBatchVars ==
    <<syncVars, tokenVars, retryVars, playerVars, migVars, idbVars, trackVars,
      artistVars, raceVars>>

SyncQuiet ==
    /\ coll = "LIBRARY"
    /\ remote = <<>>
    /\ epoch = 0
    /\ store = NoRecord
    /\ now = 0
    /\ migrationChecked = FALSE
    /\ pc = "idle"
    /\ op = NoOp
    /\ existingTrackIds = <<>>
    /\ tracks = <<>>
    /\ offset = 0
    /\ requests = 0
    /\ progress = <<>>
    /\ result = NoResult
    /\ warned = FALSE
    /\ cacheAtCall = NoRecord
    /\ epochAtCall = 0
    /\ prev = NoPrev

TokenQuiet ==
    /\ stored = NoTokens
    /\ clock = 0
    /\ cpc = [c \in Callers |-> "idle"]
    /\ sentRefresh = [c \in Callers |-> 0]
    /\ returned = [c \in Callers |-> 0]
    /\ failure = [c \in Callers |-> ""]
    /\ refreshSent = 0
    /\ issued = 0
    /\ redirected = FALSE
    /\ tries = [c \in Callers |-> 0]
    /\ outbound = NoRequest

\* the library and playlist synchronisation
Init == SyncInit /\ TokenQuiet /\ RetryInit /\ PlayerQuiet /\ MigrationQuiet /\ IdbQuiet
    /\ TrackQuiet /\ BatchQuiet /\ ArtistQuiet /\ RaceQuiet
Next ==
    \/ CallFetch /\ UNCHANGED notSyncVars
    \/ CallResync /\ UNCHANGED notSyncVars
    \/ FetchPage /\ UNCHANGED notSyncVars
    \/ PersistOk /\ UNCHANGED notSyncVars
    \/ PersistFail /\ UNCHANGED notSyncVars
    \/ Return /\ UNCHANGED notSyncVars
    \/ RemoteAdd /\ UNCHANGED notSyncVars
    \/ RemoteRemove /\ UNCHANGED notSyncVars
    \/ Tick /\ UNCHANGED notSyncVars
Spec == Init /\ [][Next]_vars

\* the same operations against a remote service whose page requests may
\* fail, the remote collection at rest
FailingSpecInit == Init
FailingSpecNext ==
    \/ CallFetch /\ UNCHANGED notSyncVars
    \/ CallResync /\ UNCHANGED notSyncVars
    \/ FetchPage /\ UNCHANGED notSyncVars
    \/ FetchFail /\ UNCHANGED notSyncVars
    \/ PersistOk /\ UNCHANGED notSyncVars
    \/ PersistFail /\ UNCHANGED notSyncVars
    \/ Return /\ UNCHANGED notSyncVars
FailingSpec == FailingSpecInit /\ [][FailingSpecNext]_vars

\* concurrent callers of getAccessToken
TokenSpecInit == TokenInit /\ SyncQuiet /\ RetryInit /\ PlayerQuiet /\ MigrationQuiet /\ IdbQuiet
    /\ TrackQuiet /\ BatchQuiet /\ ArtistQuiet /\ RaceQuiet
TokenSpecNext ==
    \/ \E c \in Callers : GetAccessToken(c) /\ UNCHANGED notTokenVars
    \/ \E c \in Callers : RefreshOk(c) /\ UNCHANGED notTokenVars
    \/ \E c \in Callers : RefreshFail(c) /\ UNCHANGED notTokenVars
    \/ \E c \in Callers : Propagate(c) /\ UNCHANGED notTokenVars
    \/ \E c \in Callers : Settle(c) /\ UNCHANGED notTokenVars
    \/ PlayerCommand /\ UNCHANGED notTokenVars
    \/ ClockTick /\ UNCHANGED notTokenVars
TokenSpec == TokenSpecInit /\ [][TokenSpecNext]_vars

\* one request through retryWithBackoff after another
RetrySpecInit == RetryInit /\ SyncQuiet /\ TokenQuiet /\ PlayerQuiet /\ MigrationQuiet /\ IdbQuiet
    /\ TrackQuiet /\ BatchQuiet /\ ArtistQuiet /\ RaceQuiet
RetrySpecNext ==
    \/ RetryCall /\ UNCHANGED notRetryVars
    \/ AttemptOk /\ UNCHANGED notRetryVars
    \/ AttemptFail /\ UNCHANGED notRetryVars
    \/ BackoffElapsed /\ UNCHANGED notRetryVars
    \/ RetrySettle /\ UNCHANGED notRetryVars
RetrySpec == RetrySpecInit /\ [][RetrySpecNext]_vars

\* the player manager: initialize once, playTrack again and again
PlayerSpecInit == PlayerInit /\ SyncQuiet /\ TokenQuiet /\ RetryInit /\ MigrationQuiet /\ IdbQuiet
    /\ TrackQuiet /\ BatchQuiet /\ ArtistQuiet /\ RaceQuiet
PlayerSpecNext ==
    \/ Initialize /\ UNCHANGED notPlayerVars
    \/ SdkLoaded /\ UNCHANGED notPlayerVars
    \/ SdkTimeout /\ UNCHANGED notPlayerVars
    \/ Ready /\ UNCHANGED notPlayerVars
    \/ SdkError /\ UNCHANGED notPlayerVars
    \/ StartPolling /\ UNCHANGED notPlayerVars
    \/ PlayerStateChanged /\ UNCHANGED notPlayerVars
    \/ PlayTrack /\ UNCHANGED notPlayerVars
    \/ DevicesResponse /\ UNCHANGED notPlayerVars
    \/ ActivePlayResponse /\ UNCHANGED notPlayerVars
    \/ SdkPlayResponse /\ UNCHANGED notPlayerVars
    \/ Discover /\ UNCHANGED notPlayerVars
    \/ ActivateResponse /\ UNCHANGED notPlayerVars
    \/ RetryResponse /\ UNCHANGED notPlayerVars
    \/ ConnectPlayResponse /\ UNCHANGED notPlayerVars
    \/ PollOnce /\ UNCHANGED notPlayerVars
    \/ TogglePlay /\ UNCHANGED notPlayerVars
    \/ ToggleLocalDone /\ UNCHANGED notPlayerVars
    \/ ToggleStateResponse /\ UNCHANGED notPlayerVars
    \/ TogglePutResponse /\ UNCHANGED notPlayerVars
    \/ ToggleRepoll /\ UNCHANGED notPlayerVars
    \/ TransferPlaybackToDevice /\ UNCHANGED notPlayerVars
    \/ TransferPutResponse /\ UNCHANGED notPlayerVars
    \/ TransferDevicesResponse /\ UNCHANGED notPlayerVars
    \/ BurstElapsed /\ UNCHANGED notPlayerVars
    \/ PlaySettle /\ UNCHANGED notPlayerVars
PlayerSpec == PlayerSpecInit /\ [][PlayerSpecNext]_vars
\* the same with the event loop's guarantee that a pending timeout fires
PlayerLiveSpec ==
    /\ PlayerSpecInit
    /\ [][PlayerSpecNext]_vars
    /\ WF_vars(BurstElapsed /\ UNCHANGED notPlayerVars)

\* the manager over the life of its components: mounts, unmounts
\* (disconnect) and remounts around the calls, with device lists of at most
\* MaxLifecycleDevices devices
LifecycleSpecInit == PlayerSpecInit
LifecycleSpecNext ==
    \/ Initialize /\ UNCHANGED notPlayerVars
    \/ SdkLoaded /\ UNCHANGED notPlayerVars
    \/ SdkTimeout /\ UNCHANGED notPlayerVars
    \/ Ready /\ UNCHANGED notPlayerVars
    \/ SdkError /\ UNCHANGED notPlayerVars
    \/ StartPolling /\ UNCHANGED notPlayerVars
    \/ PlayerStateChanged /\ UNCHANGED notPlayerVars
    \/ PlayTrack /\ UNCHANGED notPlayerVars
    \/ DevicesResponse /\ Len(devices') <= MaxLifecycleDevices /\ UNCHANGED notPlayerVars
    \/ ActivePlayResponse /\ UNCHANGED notPlayerVars
    \/ SdkPlayResponse /\ UNCHANGED notPlayerVars
    \/ Discover /\ Len(rediscovered'.list) <= MaxLifecycleDevices /\ UNCHANGED notPlayerVars
    \/ ActivateResponse /\ UNCHANGED notPlayerVars
    \/ RetryResponse /\ UNCHANGED notPlayerVars
    \/ ConnectPlayResponse /\ UNCHANGED notPlayerVars
    \/ PollOnce /\ UNCHANGED notPlayerVars
    \/ TogglePlay /\ UNCHANGED notPlayerVars
    \/ ToggleLocalDone /\ UNCHANGED notPlayerVars
    \/ ToggleStateResponse /\ UNCHANGED notPlayerVars
    \/ TogglePutResponse /\ UNCHANGED notPlayerVars
    \/ ToggleRepoll /\ UNCHANGED notPlayerVars
    \/ TransferPlaybackToDevice /\ UNCHANGED notPlayerVars
    \/ TransferPutResponse /\ UNCHANGED notPlayerVars
    \/ TransferDevicesResponse /\ UNCHANGED notPlayerVars
    \/ BurstElapsed /\ UNCHANGED notPlayerVars
    \/ PlaySettle /\ UNCHANGED notPlayerVars
    \/ Disconnect /\ UNCHANGED notPlayerVars
LifecycleSpec == LifecycleSpecInit /\ [][LifecycleSpecNext]_vars

\* concurrent collection reads at the start of a process
MigrationSpecInit ==
    MigrationInit /\ SyncQuiet /\ TokenQuiet /\ RetryInit /\ PlayerQuiet /\ IdbQuiet
    /\ TrackQuiet /\ BatchQuiet /\ ArtistQuiet /\ RaceQuiet
MigrationSpecNext ==
    \/ \E r \in Readers : EnsureMigration(r) /\ UNCHANGED notMigVars
    \/ \E r \in Readers : MigrateLibrary(r) /\ UNCHANGED notMigVars
    \/ \E r \in Readers : MigratePlaylists(r) /\ UNCHANGED notMigVars
    \/ \E r \in Readers : MigrateLoop(r) /\ UNCHANGED notMigVars
    \/ \E r \in Readers : CleanupDone(r) /\ UNCHANGED notMigVars
    \/ \E r \in Readers : ReadReturns(r) /\ UNCHANGED notMigVars
MigrationSpec == MigrationSpecInit /\ [][MigrationSpecNext]_vars

\* operations on one object store, one after another
IdbSpecInit ==
    IdbInit /\ SyncQuiet /\ TokenQuiet /\ RetryInit /\ PlayerQuiet /\ MigrationQuiet
    /\ TrackQuiet /\ BatchQuiet /\ ArtistQuiet /\ RaceQuiet
IdbSpecNext ==
    \/ IdbGet /\ UNCHANGED notIdbVars
    \/ IdbSet /\ UNCHANGED notIdbVars
    \/ IdbDelete /\ UNCHANGED notIdbVars
    \/ IdbGetAllKeys /\ UNCHANGED notIdbVars
    \/ IdbClear /\ UNCHANGED notIdbVars
IdbSpec == IdbSpecInit /\ [][IdbSpecNext]_vars

\* a track goes into the cache and comes back
TrackSpecInit ==
    TrackInit /\ SyncQuiet /\ TokenQuiet /\ RetryInit /\ PlayerQuiet /\ MigrationQuiet
    /\ IdbQuiet /\ BatchQuiet /\ ArtistQuiet /\ RaceQuiet
TrackSpecNext ==
    \/ CacheTrack /\ UNCHANGED notTrackVars
    \/ LoadTrack /\ UNCHANGED notTrackVars
TrackSpec == TrackSpecInit /\ [][TrackSpecNext]_vars

\* one call of batchFetchArtistFollowers
BatchSpecInit ==
    BatchInit /\ SyncQuiet /\ TokenQuiet /\ RetryInit /\ PlayerQuiet /\ MigrationQuiet
    /\ IdbQuiet /\ TrackQuiet /\ ArtistQuiet /\ RaceQuiet
BatchSpecNext ==
    \/ Dispatch /\ UNCHANGED notBatchVars
    \/ LookupOk /\ UNCHANGED notBatchVars
    \/ LookupFail /\ UNCHANGED notBatchVars
    \/ BatchSettled /\ UNCHANGED notBatchVars
BatchSpec == BatchSpecInit /\ [][BatchSpecNext]_vars

\* calls of getArtistFollowers for one artist, one at a time
ArtistSpecInit ==
    ArtistInit /\ SyncQuiet /\ TokenQuiet /\ RetryInit /\ PlayerQuiet /\ MigrationQuiet
    /\ IdbQuiet /\ TrackQuiet /\ BatchQuiet /\ RaceQuiet
ArtistSpecNext ==
    \/ GetArtistFollowers /\ UNCHANGED notArtistVars
    \/ ArtistReadSettles /\ UNCHANGED notArtistVars
    \/ ArtistLookupSettles /\ UNCHANGED notArtistVars
    \/ ArtistStoreSettles /\ UNCHANGED notArtistVars
    \/ ArtistSettle /\ UNCHANGED notArtistVars
    \/ ArtistTick /\ UNCHANGED notArtistVars
ArtistSpec == ArtistSpecInit /\ [][ArtistSpecNext]_vars

\* two fetches of one track collection at once
RaceSpecInit ==
    /\ SyncInit /\ Minimizes(coll)
    /\ TokenQuiet /\ RetryInit /\ PlayerQuiet /\ MigrationQuiet /\ IdbQuiet
    /\ TrackQuiet /\ BatchQuiet /\ ArtistQuiet /\ RaceQuiet
RaceSpecNext ==
    \/ \E f \in Fetchers : RaceCall(f) /\ UNCHANGED notRaceVars
    \/ \E f \in Fetchers : RacePage(f) /\ UNCHANGED notRaceVars
    \/ \E f \in Fetchers : RacePersist(f) /\ UNCHANGED notRaceVars
    \/ RemoteAdd /\ UNCHANGED notSyncVars
    \/ RemoteRemove /\ UNCHANGED notSyncVars
RaceSpec == RaceSpecInit /\ [][RaceSpecNext]_vars

====
